---- MODULE Spec2Model ----
(***************************************************************************)
(* Content-generation bot (Dmitriiyak/AI_content_generator): the quota     *)
(* ledger, the generate-validate-charge handlers of the three bot builds   *)
(* kept in the repository, and the refusal predicates.                     *)
(*                                                                         *)
(* Texts are sequences of Unicode code points, so that trimming, case      *)
(* folding and substring search are computed, not assumed.                 *)
(***************************************************************************)
EXTENDS Integers, Sequences, FiniteSets, TLC

(***************************************************************************)
(* Bounds of the model.                                                    *)
(***************************************************************************)
\* number of chats (users) talking to the bot
MaxUsers == 2
\* number of generation requests submitted in one run
MaxReq == 2
\* longest ranked candidate list a request sees
MaxCand == 2
\* largest balance a stored user starts with (the users file loaded at start)
MaxInitBalance == 1
\* number of credit operations (admin credit or purchase) in one run
MaxCredits == 1
\* largest count the admin credits in one /addgenerations command
MaxCreditCount == 1
\* seconds the wall clock can reach
MaxClock == 30

(***************************************************************************)
(* Program constants.                                                      *)
(***************************************************************************)
\* free generations of a user the ledger has never stored
FreeGenerations == 10
\* limit passed to FindRelevantArticles by handleGenerateFromKeywords
KeywordsLimit == 5
\* limit passed to FindRelevantArticles by handleGenerate
RelevantLimit == 3
\* shortest trimmed post (bytes) tryGeneratePost accepts
MinPostLen == 100
\* seconds between two accepted requests of one chat
SpamWindow == 30
\* seconds the model's clock advances in one tick
TickStep == 15

UserIds == 1..MaxUsers
Requests == 1..MaxReq

Min(S) == CHOOSE x \in S : \A y \in S : x <= y
Max(S) == CHOOSE x \in S : \A y \in S : x >= y

(***************************************************************************)
(* Strings (package strings / unicode of the Go runtime), on code points.  *)
(***************************************************************************)
\* unicode.IsSpace
IsSpace(c) ==
    \/ c \in {9, 10, 11, 12, 13, 32, 133, 160, 5760, 8232, 8233, 8239, 8287, 12288}
    \/ (c >= 8192 /\ c <= 8202)

\* strings.TrimSpace
TrimSpace(s) ==
    LET keep == {i \in 1..Len(s) : ~IsSpace(s[i])}
    IN  IF keep = {} THEN <<>> ELSE SubSeq(s, Min(keep), Max(keep))

\* a mapper that folds Latin letters only
ToLowerRuneAsciiOnly(c) ==
    IF c >= 65 /\ c <= 90 THEN c + 32 ELSE c

\* unicode.ToLower on the Latin and Cyrillic blocks
ToLowerRune(c) ==
    IF c >= 65 /\ c <= 90 THEN c + 32
    ELSE IF c >= 1040 /\ c <= 1071 THEN c + 32
    ELSE IF c >= 1024 /\ c <= 1039 THEN c + 80
    ELSE c

\* strings.ToLower
ToLower(s) == [i \in 1..Len(s) |-> ToLowerRune(s[i])]

\* strings.Contains
Contains(s, sub) ==
    \E i \in 0..(Len(s) - Len(sub)) : SubSeq(s, i + 1, i + Len(sub)) = sub

\* strings.HasPrefix
HasPrefix(s, p) ==
    Len(s) >= Len(p) /\ SubSeq(s, 1, Len(p)) = p

\* bytes of one code point in UTF-8
Utf8Len(c) ==
    IF c < 128 THEN 1 ELSE IF c < 2048 THEN 2 ELSE IF c < 65536 THEN 3 ELSE 4

\* len(s) of a Go string: its length in bytes
RECURSIVE ByteLen(_)
ByteLen(s) ==
    IF s = <<>> THEN 0 ELSE Utf8Len(Head(s)) + ByteLen(Tail(s))

\* two code points that are the same letter in either case (Latin, Cyrillic)
SameLetter(a, b) ==
    LET upper(c) == (c >= 65 /\ c <= 90) \/ (c >= 1040 /\ c <= 1071)
    IN  \/ a = b
        \/ upper(a) /\ b = a + 32
        \/ upper(b) /\ a = b + 32

\* sub occurs in s, letters compared without regard to case
ContainsAnyCase(s, sub) ==
    \E i \in 0..(Len(s) - Len(sub)) :
        \A j \in 1..Len(sub) : SameLetter(s[i + j], sub[j])

\* s holds one of the phrases, in any case
MentionsAny(s, phrases) ==
    \E k \in 1..Len(phrases) : ContainsAnyCase(s, phrases[k])

(***************************************************************************)
(* Refusal predicates.                                                     *)
(***************************************************************************)
\* Bot.isGPTRefusal: the phrase list
refusalPhrases ==
  <<
    \* "я не могу обсуждать эту тему"
    <<1103, 32, 1085, 1077, 32, 1084, 1086, 1075, 1091, 32, 1086, 1073, 1089, 1091, 1078, 1076, 1072, 1090, 1100, 32, 1101, 1090, 1091, 32, 1090, 1077, 1084, 1091>>,
    \* "не могу обсуждать"
    <<1085, 1077, 32, 1084, 1086, 1075, 1091, 32, 1086, 1073, 1089, 1091, 1078, 1076, 1072, 1090, 1100>>,
    \* "отказываюсь обсуждать"
    <<1086, 1090, 1082, 1072, 1079, 1099, 1074, 1072, 1102, 1089, 1100, 32, 1086, 1073, 1089, 1091, 1078, 1076, 1072, 1090, 1100>>,
    \* "это неэтично"
    <<1101, 1090, 1086, 32, 1085, 1077, 1101, 1090, 1080, 1095, 1085, 1086>>,
    \* "это неприемлемо"
    <<1101, 1090, 1086, 32, 1085, 1077, 1087, 1088, 1080, 1077, 1084, 1083, 1077, 1084, 1086>>,
    \* "я не буду"
    <<1103, 32, 1085, 1077, 32, 1073, 1091, 1076, 1091>>,
    \* "не могу создать"
    <<1085, 1077, 32, 1084, 1086, 1075, 1091, 32, 1089, 1086, 1079, 1076, 1072, 1090, 1100>>,
    \* "не могу написать"
    <<1085, 1077, 32, 1084, 1086, 1075, 1091, 32, 1085, 1072, 1087, 1080, 1089, 1072, 1090, 1100>>,
    \* "извините, но я не могу"
    <<1080, 1079, 1074, 1080, 1085, 1080, 1090, 1077, 44, 32, 1085, 1086, 32, 1103, 32, 1085, 1077, 32, 1084, 1086, 1075, 1091>>,
    \* "сожалею, но я не могу"
    <<1089, 1086, 1078, 1072, 1083, 1077, 1102, 44, 32, 1085, 1086, 32, 1103, 32, 1085, 1077, 32, 1084, 1086, 1075, 1091>>
  >>

\* Bot.isRejectedPost: the phrase list
rejectionPhrases ==
  <<
    \* "не могу обсуждать"
    <<1085, 1077, 32, 1084, 1086, 1075, 1091, 32, 1086, 1073, 1089, 1091, 1078, 1076, 1072, 1090, 1100>>,
    \* "не могу написать"
    <<1085, 1077, 32, 1084, 1086, 1075, 1091, 32, 1085, 1072, 1087, 1080, 1089, 1072, 1090, 1100>>,
    \* "отказываюсь"
    <<1086, 1090, 1082, 1072, 1079, 1099, 1074, 1072, 1102, 1089, 1100>>,
    \* "не буду"
    <<1085, 1077, 32, 1073, 1091, 1076, 1091>>,
    \* "это не в моей компетенции"
    <<1101, 1090, 1086, 32, 1085, 1077, 32, 1074, 32, 1084, 1086, 1077, 1081, 32, 1082, 1086, 1084, 1087, 1077, 1090, 1077, 1085, 1094, 1080, 1080>>,
    \* "давайте поговорим"
    <<1076, 1072, 1074, 1072, 1081, 1090, 1077, 32, 1087, 1086, 1075, 1086, 1074, 1086, 1088, 1080, 1084>>,
    \* "не могу помочь"
    <<1085, 1077, 32, 1084, 1086, 1075, 1091, 32, 1087, 1086, 1084, 1086, 1095, 1100>>
  >>

\* a refusal check that folds Latin letters only
isGPTRefusalAsciiFold(post) ==
    LET postLower == [i \in 1..Len(TrimSpace(post)) |->
                          ToLowerRuneAsciiOnly(TrimSpace(post)[i])]
    IN  \E k \in 1..Len(refusalPhrases) : Contains(postLower, refusalPhrases[k])

\* Bot.isGPTRefusal
isGPTRefusal(post) ==
    LET postLower == ToLower(TrimSpace(post))
    IN  \E k \in 1..Len(refusalPhrases) : Contains(postLower, refusalPhrases[k])

\* Bot.isRejectedPost
isRejectedPost(post) ==
    LET postLower == ToLower(post)
    IN  \E k \in 1..Len(rejectionPhrases) :
            Contains(postLower, ToLower(rejectionPhrases[k]))

(***************************************************************************)
(* The generator client.                                                   *)
(***************************************************************************)
\* the emoji a post may start with: "⚡️", "🔥", "🚨"
EmojiPrefixes == {<<9889, 65039>>, <<128293>>, <<128680>>}

\* YandexGPTClient.makeRequest: the text handed back for a message content
makeRequest(content) == TrimSpace(content)

\* YandexGPTClient.GeneratePost / GeneratePostFromURL: the post built from
\* the content of the model's answer
GeneratePost(content) ==
    LET post == TrimSpace(makeRequest(content))
    IN  IF \E e \in EmojiPrefixes : HasPrefix(post, e)
        THEN post
        ELSE <<9889, 65039, 32>> \o post

\* what the generator's model answers in this model: nothing, blanks, a short
\* text, a refusal in mixed case, a polite decline, a long well-formed post
\* " \n"
BlankReply ==
    <<32, 10>>
\* "Новости дня" (21 bytes)
ShortReply ==
    <<1053, 1086, 1074, 1086, 1089, 1090, 1080, 32, 1076, 1085, 1103>>
\* "Извините, но я НЕ МОГУ обсуждать эту тему" (74 bytes)
RefusalReply ==
    <<1048, 1079, 1074, 1080, 1085, 1080, 1090, 1077, 44, 32, 1085, 1086, 32, 1103, 32, 1053, 1045, 32, 1052, 1054, 1043, 1059, 32, 1086, 1073, 1089, 1091, 1078, 1076, 1072, 1090, 1100, 32, 1101, 1090, 1091, 32, 1090, 1077, 1084, 1091>>
\* "🔥 Учёные представили новый робот-манипулятор: он собирает микросхемы
\* втрое быстрее человека" (172 bytes)
LongReply ==
    <<128293, 32, 1059, 1095, 1105, 1085, 1099, 1077, 32, 1087, 1088, 1077, 1076, 1089, 1090, 1072, 1074, 1080, 1083, 1080, 32, 1085, 1086, 1074, 1099, 1081, 32, 1088, 1086, 1073, 1086, 1090, 45, 1084, 1072, 1085, 1080, 1087, 1091, 1083, 1103, 1090, 1086, 1088, 58, 32, 1086, 1085, 32, 1089, 1086, 1073, 1080, 1088, 1072, 1077, 1090, 32, 1084, 1080, 1082, 1088, 1086, 1089, 1093, 1077, 1084, 1099, 32, 1074, 1090, 1088, 1086, 1077, 32, 1073, 1099, 1089, 1090, 1088, 1077, 1077, 32, 1095, 1077, 1083, 1086, 1074, 1077, 1082, 1072>>

Replies == {<<>>, BlankReply, ShortReply, RefusalReply, LongReply}

(***************************************************************************)
(* The quota ledger: Database (users.json) and the older Storage.          *)
(* A ledger is a function from user ids to records; exists = FALSE is a    *)
(* user the map does not hold.                                             *)
(***************************************************************************)
NoUser == [exists |-> FALSE, avail |-> 0, total |-> 0]

NewUser == [exists |-> TRUE, avail |-> FreeGenerations, total |-> 0]

\* Database.GetUser / Storage.GetUser: a copy of the stored user, or a fresh
\* user that is not stored
GetUser(us, userID) ==
    IF us[userID].exists THEN us[userID] ELSE NewUser

\* a debit that does not look at the balance
UseGenerationNoGuard(us, userID, saveOk) ==
    LET user == IF us[userID].exists THEN us[userID] ELSE NewUser
        debited == [us EXCEPT ![userID] =
                       [user EXCEPT !.avail = @ - 1, !.total = @ + 1]]
    IN  IF saveOk
        THEN [users |-> debited, ok |-> TRUE, err |-> FALSE]
        ELSE [users |-> debited, ok |-> FALSE, err |-> TRUE]

\* a debit whose balance check is off by one
UseGenerationOffByOne(us, userID, saveOk) ==
    LET user == IF us[userID].exists THEN us[userID] ELSE NewUser
        created == [us EXCEPT ![userID] = user]
        debited == [us EXCEPT ![userID] =
                       [user EXCEPT !.avail = @ - 1, !.total = @ + 1]]
    IN  IF user.avail < 0
        THEN [users |-> created, ok |-> FALSE, err |-> FALSE]
        ELSE IF saveOk
        THEN [users |-> debited, ok |-> TRUE, err |-> FALSE]
        ELSE [users |-> debited, ok |-> FALSE, err |-> TRUE]

\* a debit that gives a new user one generation more
UseGenerationOneMore(us, userID, saveOk) ==
    LET user == IF us[userID].exists THEN us[userID]
                ELSE [NewUser EXCEPT !.avail = @ + 1]
        created == [us EXCEPT ![userID] = user]
        debited == [us EXCEPT ![userID] =
                       [user EXCEPT !.avail = @ - 1, !.total = @ + 1]]
    IN  IF user.avail <= 0
        THEN [users |-> created, ok |-> FALSE, err |-> FALSE]
        ELSE IF saveOk
        THEN [users |-> debited, ok |-> TRUE, err |-> FALSE]
        ELSE [users |-> debited, ok |-> FALSE, err |-> TRUE]

\* a debit through one record shared by all users: every existing user is
\* debited with the caller
UseGenerationSharedRecord(us, userID, saveOk) ==
    LET user == IF us[userID].exists THEN us[userID] ELSE NewUser
        created == [us EXCEPT ![userID] = user]
        debited == [u \in DOMAIN us |->
                       IF u = userID
                       THEN [user EXCEPT !.avail = @ - 1, !.total = @ + 1]
                       ELSE IF us[u].exists
                       THEN [us[u] EXCEPT !.avail = @ - 1, !.total = @ + 1]
                       ELSE us[u]]
    IN  IF user.avail <= 0
        THEN [users |-> created, ok |-> FALSE, err |-> FALSE]
        ELSE IF saveOk
        THEN [users |-> debited, ok |-> TRUE, err |-> FALSE]
        ELSE [users |-> debited, ok |-> FALSE, err |-> TRUE]

\* Database.UseGeneration, under db.mu: the users after the call and the
\* (bool, error) it returns; saveOk is whether db.save() succeeds
UseGeneration(us, userID, saveOk) ==
    LET user == IF us[userID].exists THEN us[userID] ELSE NewUser
        created == [us EXCEPT ![userID] = user]
        debited == [us EXCEPT ![userID] =
                       [user EXCEPT !.avail = @ - 1, !.total = @ + 1]]
    IN  IF user.avail <= 0
        THEN [users |-> created, ok |-> FALSE, err |-> FALSE]
        ELSE IF saveOk
        THEN [users |-> debited, ok |-> TRUE, err |-> FALSE]
        ELSE [users |-> debited, ok |-> FALSE, err |-> TRUE]

\* Storage.UseGeneration, under s.mu
StorageUseGeneration(us, userID, saveOk) ==
    LET user == IF us[userID].exists THEN us[userID] ELSE NewUser
        created == [us EXCEPT ![userID] = user]
        debited == [us EXCEPT ![userID] =
                       [user EXCEPT !.avail = @ - 1, !.total = @ + 1]]
    IN  IF user.avail <= 0
        THEN [users |-> created, ok |-> FALSE, err |-> FALSE]
        ELSE IF saveOk
        THEN [users |-> debited, ok |-> TRUE, err |-> FALSE]
        ELSE [users |-> debited, ok |-> FALSE, err |-> TRUE]

\* AddGenerations that stores a new user with the added generations only
AddGenerationsNoFree(us, userID, count) ==
    IF us[userID].exists
    THEN [us EXCEPT ![userID].avail = @ + count]
    ELSE [us EXCEPT ![userID] = [exists |-> TRUE, avail |-> count, total |-> 0]]

\* Database.AddGenerations, under db.mu: a new user gets 10 + count
AddGenerations(us, userID, count) ==
    IF us[userID].exists
    THEN [us EXCEPT ![userID].avail = @ + count]
    ELSE [us EXCEPT ![userID] =
             [exists |-> TRUE, avail |-> FreeGenerations + count, total |-> 0]]

\* Storage.AddGenerations that adds nothing
StorageAddGenerationsNone(us, userID, count) == us

\* Storage.AddGenerations, under s.mu (IsPremium is not modelled)
StorageAddGenerations(us, userID, count) ==
    LET user == IF us[userID].exists THEN us[userID] ELSE NewUser
    IN  [us EXCEPT ![userID] = [user EXCEPT !.avail = @ + count]]

\* the package codes of a purchase; "other" is any code the switch does not know
PackageTypes == {"10", "25", "100", "other"}

\* the packages bought in this model: one the switch knows, one it does not
PurchasedPackages == {"25", "other"}

\* Database.AddPurchase: the generations of a package
PackageGenerations(packageType) ==
    CASE packageType = "10" -> 10
      [] packageType = "25" -> 25
      [] packageType = "100" -> 100
      [] OTHER -> 10

\* Database.AddPurchase, under db.mu: the users after the call
AddPurchase(us, userID, packageType) ==
    LET user == IF us[userID].exists THEN us[userID] ELSE NewUser
    IN  [us EXCEPT ![userID] =
            [user EXCEPT !.avail = @ + PackageGenerations(packageType)]]

(***************************************************************************)
(* State.                                                                  *)
(***************************************************************************)
VARIABLES
    build,            \* which bot of the repository is running
    users,            \* Database.users / Storage.users
    generations,      \* Database.generations: the user of each history record
    purchases,        \* Database.purchases: the user and package of each purchase
    credits,          \* credit operations done so far (bounds the run)
    reqs,             \* the generation requests: position and locals of each handler
    clock,            \* time.Now(), in seconds
    userLastRequest,  \* Bot.userLastRequest: -1 where the map has no entry
    check,            \* a text handed to the refusal predicates, and what they said
    news,             \* a run of the news aggregator: its input, position and result
    shutdown,         \* whether main has cancelled the context of Bot.Start, or has exited
    tally,            \* what the direct calls of the ledger returned to their caller
    payment           \* a payment at the provider, its pending purchase and its checkers

vars == <<build, users, generations, purchases, credits, reqs, clock, userLastRequest, check,
          news, shutdown, tally, payment>>

\* the bots of the repository: the bot over Database with the quota check in
\* both handlers, its predecessor, and the bot over Storage
Builds == {"BotDatabase", "BotDatabaseOld", "BotStorage"}

\* a request slot no message has used yet; the fields after post are
\* observations of the run of the handler, not state of the program
IdleReq ==
    [pc |-> "idle", user |-> 0, shape |-> "none",
     cur |-> 0, post |-> <<>>,
     startEmpty |-> FALSE, fetched |-> FALSE, ncand |-> 0, calls |-> <<>>,
     blank |-> FALSE, valid |-> FALSE, debits |-> 0, charged |-> 0, refunds |-> 0,
     analysis |-> "none", outcome |-> "none", delivered |-> FALSE]

\* the handler returns: its locals are gone, what it did stays
Finish(q, outcome, delivered) ==
    [q EXCEPT !.pc = "done", !.cur = 0, !.post = <<>>, !.blank = FALSE,
              !.outcome = outcome, !.delivered = delivered]

\* the ranked lists a request may get: each article with or without an image
ArticleLists(limit) ==
    UNION {[1..n -> BOOLEAN] : n \in 0..Min({MaxCand, limit})}

\* the users file loaded at start: it holds user 1 with a small balance, or
\* nobody; every other user is new to the ledger
InitUsers ==
    {[u \in UserIds |-> IF u = 1 THEN first ELSE NoUser] :
        first \in {NoUser} \cup
                  {[exists |-> TRUE, avail |-> a, total |-> 0] : a \in 0..MaxInitBalance}}

\* no text has been handed to the predicates
NoCheck ==
    [pc |-> "none", post |-> <<>>, isGPTRefusal |-> FALSE, isRejectedPost |-> FALSE,
     verdict |-> "none", accepted |-> FALSE]

\* the aggregator is not looked at
NoNewsRun == [pc |-> "none"]

\* no payment has been started
NoPayment == [status |-> "none"]

\* no direct call of the ledger yet
NoTally == [ok |-> 0, refused |-> FALSE, read |-> -1]

Init ==
    /\ shutdown = "running"
    /\ tally = NoTally
    /\ payment = NoPayment
    /\ news = NoNewsRun
    /\ check = NoCheck
    /\ build \in Builds
    /\ users \in InitUsers
    /\ generations = <<>>
    /\ purchases = <<>>
    /\ credits = 0
    /\ reqs = [r \in Requests |-> IdleReq]
    /\ clock = 0
    /\ userLastRequest = [u \in UserIds |-> -1]

DatabaseBuild == build \in {"BotDatabase", "BotDatabaseOld"}

\* requests are numbered in the order their messages arrive
NextToArrive(r) ==
    /\ reqs[r].pc = "idle"
    /\ \A s \in 1..(r - 1) : reqs[s].pc # "idle"

(***************************************************************************)
(* Bot over Database: handleGenerateFromKeywords, one goroutine a request. *)
(***************************************************************************)
\* handleGenerateCommand starts the goroutine; the handler reads the balance
\* (BotDatabase only) and stops a user without generations
KwStart(r, userID) ==
    /\ DatabaseBuild
    /\ NextToArrive(r)
    /\ LET empty == GetUser(users, userID).avail <= 0
           q == [reqs[r] EXCEPT !.user = userID, !.shape = "keywords",
                                !.startEmpty = empty]
       IN  reqs' = [reqs EXCEPT ![r] =
                       IF build = "BotDatabase" /\ empty
                       THEN Finish(q, "QuotaExhausted", FALSE)
                       ELSE [q EXCEPT !.pc = "find"]]
    /\ UNCHANGED <<payment, tally, shutdown, news, check, build, users, generations, purchases, credits, clock, userLastRequest>>

\* FindRelevantArticles(keywords, 5) and the choice of the article: the first
\* with an image, else the first (BotDatabaseOld: always the first)
KwFind(r) ==
    /\ DatabaseBuild
    /\ reqs[r].pc = "find"
    /\ reqs[r].shape = "keywords"
    /\ \E findErr \in BOOLEAN, articles \in ArticleLists(KeywordsLimit) :
          LET q == [reqs[r] EXCEPT !.fetched = TRUE]
              withImage == {i \in 1..Len(articles) : articles[i]}
              selected == IF build = "BotDatabase" /\ withImage # {}
                          THEN Min(withImage) ELSE 1
          IN  reqs' = [reqs EXCEPT ![r] =
                  IF findErr THEN Finish(q, "NewsError", FALSE)
                  ELSE IF Len(articles) = 0 THEN Finish(q, "NoNews", FALSE)
                  ELSE [q EXCEPT !.pc = "generate", !.ncand = Len(articles),
                                 !.cur = selected]]
    /\ UNCHANGED <<payment, tally, shutdown, news, check, build, users, generations, purchases, credits, clock, userLastRequest>>

\* what a call of the generator gave, as the observer of a run sees it
Answer(genErr, content, phrases) ==
    IF genErr THEN "error"
    ELSE IF MentionsAny(content, phrases) THEN "refusal"
    ELSE "other"

\* the same for each answer of the model, against either phrase list, and
\* whether the answer is empty or white space only
Answers ==
    [content \in Replies |->
        [gpt |-> Answer(FALSE, content, refusalPhrases),
         storage |-> Answer(FALSE, content, rejectionPhrases),
         blank |-> TrimSpace(content) = <<>>]]

\* the checks of a generated post: refusal, then empty
CheckPost(post) ==
    IF isGPTRefusal(post) THEN "Refusal"
    ELSE IF TrimSpace(post) = <<>> THEN "EmptyPost"
    ELSE "ok"

\* for each answer of the model: the post GeneratePost builds and what the
\* checks say about it
Generated ==
    [content \in Replies |->
        [post |-> GeneratePost(content), check |-> CheckPost(GeneratePost(content))]]

\* the handler after the generator returned: error, refusal, empty, or on to
\* the debit
Validate(q, genErr, content) ==
    LET called == [q EXCEPT !.calls = Append(@,
                      [article |-> q.cur,
                       answer |-> IF genErr THEN "error" ELSE Answers[content].gpt]),
                   !.blank = ~genErr /\ Answers[content].blank]
    IN  IF genErr THEN Finish(called, "GeneratorError", FALSE)
        ELSE IF Generated[content].check # "ok"
        THEN Finish(called, Generated[content].check, FALSE)
        ELSE [called EXCEPT !.pc = "debit", !.post = Generated[content].post,
                            !.valid = TRUE]

\* gptClient.GeneratePost for the chosen article, then the checks
KwGenerate(r) ==
    /\ DatabaseBuild
    /\ reqs[r].pc = "generate"
    /\ reqs[r].shape = "keywords"
    /\ \E genErr \in BOOLEAN, content \in Replies :
          reqs' = [reqs EXCEPT ![r] = Validate(reqs[r], genErr, content)]
    /\ UNCHANGED <<payment, tally, shutdown, news, check, build, users, generations, purchases, credits, clock, userLastRequest>>

\* db.UseGeneration after the checks passed
Debit(r) ==
    /\ DatabaseBuild
    /\ reqs[r].pc = "debit"
    /\ \E saveOk \in BOOLEAN :
          LET uid == reqs[r].user
              res == UseGeneration(users, uid, saveOk)
              q == [reqs[r] EXCEPT
                       !.debits = @ + 1,
                       !.charged = @ + GetUser(users, uid).avail
                                     - GetUser(res.users, uid).avail]
          IN  /\ users' = res.users
              /\ reqs' = [reqs EXCEPT ![r] =
                     IF res.err \/ ~res.ok
                     THEN Finish(q, "LedgerError", FALSE)
                     ELSE [q EXCEPT !.pc = "history"]]
    /\ UNCHANGED <<payment, tally, shutdown, news, check, build, generations, purchases, credits, clock, userLastRequest>>

\* db.AddGeneration that appends the record twice
AddGenerationTwice(r) ==
    /\ DatabaseBuild
    /\ reqs[r].pc = "history"
    /\ generations' = generations \o <<reqs[r].user, reqs[r].user>>
    /\ reqs' = [reqs EXCEPT ![r].pc = "send"]
    /\ UNCHANGED <<payment, tally, shutdown, news, check, build, users, purchases, credits, clock, userLastRequest>>

\* db.AddGeneration
AddGeneration(r) ==
    /\ DatabaseBuild
    /\ reqs[r].pc = "history"
    /\ generations' = Append(generations, reqs[r].user)
    /\ reqs' = [reqs EXCEPT ![r].pc = "send"]
    /\ UNCHANGED <<payment, tally, shutdown, news, check, build, users, purchases, credits, clock, userLastRequest>>

\* the post goes out: with the photo, else as Markdown, else as plain text;
\* every attempt may fail, and the handler ends the same way
Send(r) ==
    /\ DatabaseBuild
    /\ reqs[r].pc = "send"
    /\ \E sent \in BOOLEAN :
          reqs' = [reqs EXCEPT ![r] = Finish(reqs[r], "Success", sent)]
    /\ UNCHANGED <<payment, tally, shutdown, news, check, build, users, generations, purchases, credits, clock, userLastRequest>>

(***************************************************************************)
(* Bot over Database: handleGenerateFromURL.                               *)
(***************************************************************************)
\* the handler reads the balance and stops a user without generations
UrlStart(r, userID) ==
    /\ DatabaseBuild
    /\ NextToArrive(r)
    /\ LET empty == GetUser(users, userID).avail <= 0
           q == [reqs[r] EXCEPT !.user = userID, !.shape = "url",
                                !.startEmpty = empty]
       IN  reqs' = [reqs EXCEPT ![r] =
                       IF empty
                       THEN Finish(q, "QuotaExhausted", FALSE)
                       ELSE [q EXCEPT !.pc = "find"]]
    /\ UNCHANGED <<payment, tally, shutdown, news, check, build, users, generations, purchases, credits, clock, userLastRequest>>

\* fetchWebContent
UrlFetch(r) ==
    /\ DatabaseBuild
    /\ reqs[r].pc = "find"
    /\ reqs[r].shape = "url"
    /\ \E fetchErr \in BOOLEAN :
          LET q == [reqs[r] EXCEPT !.fetched = TRUE]
          IN  reqs' = [reqs EXCEPT ![r] =
                  IF fetchErr THEN Finish(q, "FetchError", FALSE)
                  ELSE [q EXCEPT !.pc = "generate"]]
    /\ UNCHANGED <<payment, tally, shutdown, news, check, build, users, generations, purchases, credits, clock, userLastRequest>>

\* gptClient.GeneratePostFromURL, then the checks
UrlGenerate(r) ==
    /\ DatabaseBuild
    /\ reqs[r].pc = "generate"
    /\ reqs[r].shape = "url"
    /\ \E genErr \in BOOLEAN, content \in Replies :
          reqs' = [reqs EXCEPT ![r] = Validate(reqs[r], genErr, content)]
    /\ UNCHANGED <<payment, tally, shutdown, news, check, build, users, generations, purchases, credits, clock, userLastRequest>>

(***************************************************************************)
(* Bot over Database: credits.                                             *)
(***************************************************************************)
\* handleAddGenerationsCommand: the admin credits 0 < count <= 1000
AdminAddGenerations(userID, count) ==
    /\ build = "BotDatabase"
    /\ credits < MaxCredits
    /\ count > 0
    /\ users' = AddGenerations(users, userID, count)
    /\ credits' = credits + 1
    /\ UNCHANGED <<payment, tally, shutdown, news, check, build, generations, purchases, reqs, clock, userLastRequest>>

\* a payment succeeded: db.AddPurchase (handleCheckPayment, checkPaymentStatus)
Purchase(userID, packageType) ==
    /\ DatabaseBuild
    /\ credits < MaxCredits
    /\ users' = AddPurchase(users, userID, packageType)
    /\ purchases' = Append(purchases, [user |-> userID, package |-> packageType])
    /\ credits' = credits + 1
    /\ UNCHANGED <<payment, tally, shutdown, news, check, build, generations, reqs, clock, userLastRequest>>

(***************************************************************************)
(* Bot over Storage: handleGenerate, one message at a time (Bot.Start      *)
(* calls the handler in its loop).                                         *)
(***************************************************************************)
\* an anti-spam check that lets every request through
getTimeLeftSecondsNone(last, now) == 0

\* Bot.getTimeLeftSeconds
getTimeLeftSeconds(last, now) ==
    IF last = -1 THEN 0
    ELSE IF SpamWindow - (now - last) < 0 THEN 0
    ELSE SpamWindow - (now - last)

NoRequestRunning == \A r \in Requests : reqs[r].pc \in {"idle", "done"}

\* the balance check, the anti-spam check, the debit and the progress message;
\* the message names a channel ("@name") or a topic
HandleGenerate(r, userID) ==
    /\ build = "BotStorage"
    /\ NoRequestRunning
    /\ NextToArrive(r)
    /\ \E saveOk \in BOOLEAN, progressSent \in BOOLEAN, isChannel \in BOOLEAN :
          LET empty == GetUser(users, userID).avail <= 0
              q0 == [reqs[r] EXCEPT !.user = userID,
                                    !.shape = IF isChannel THEN "channel" ELSE "topic",
                                    !.startEmpty = empty]
              timeLeft == getTimeLeftSeconds(userLastRequest[userID], clock)
              res == StorageUseGeneration(users, userID, saveOk)
              q1 == [q0 EXCEPT !.debits = 1,
                               !.charged = GetUser(users, userID).avail
                                             - GetUser(res.users, userID).avail]
          IN  IF empty
              THEN /\ reqs' = [reqs EXCEPT ![r] = Finish(q0, "QuotaExhausted", FALSE)]
                   /\ UNCHANGED <<users, userLastRequest>>
              ELSE IF timeLeft > 0
              THEN /\ reqs' = [reqs EXCEPT ![r] = Finish(q0, "RateLimited", FALSE)]
                   /\ UNCHANGED <<users, userLastRequest>>
              ELSE /\ userLastRequest' = [userLastRequest EXCEPT ![userID] = clock]
                   /\ users' = res.users
                   /\ reqs' = [reqs EXCEPT ![r] =
                          IF res.err \/ ~res.ok THEN Finish(q1, "SystemError", FALSE)
                          ELSE IF ~progressSent THEN Finish(q1, "NoReport", FALSE)
                          ELSE [q1 EXCEPT !.pc = "fetch"]]
    /\ UNCHANGED <<payment, tally, shutdown, news, check, build, generations, purchases, credits, clock>>

\* the generation is given back: storage.AddGenerations(chat, 1) took the
\* ledger from before to after
Refund(q, before, after) ==
    [q EXCEPT !.refunds = @ + 1,
              !.charged = @ - (GetUser(after, q.user).avail
                                 - GetUser(before, q.user).avail)]

\* what handleGenerate ranks with: the analysis of the channel, or
\* createAnalysisFromKeywords of the channel name when AnalyzeChannel
\* failed, or createAnalysisFromKeywords of the topic
AnalysisOf(shape, analysisErr) ==
    IF shape # "channel" THEN "keywords"
    ELSE IF analysisErr THEN "fallback"
    ELSE "channel"

\* FetchAllArticles, the analysis and
\* FindRelevantArticles(ctx, articles, analysis, 3)
HandleGenerateFetch(r) ==
    /\ build = "BotStorage"
    /\ reqs[r].pc = "fetch"
    /\ \E fetchErr \in BOOLEAN, noArticles \in BOOLEAN, analysisErr \in BOOLEAN,
          relevant \in ArticleLists(RelevantLimit) :
          LET q == [reqs[r] EXCEPT
                       !.fetched = TRUE,
                       !.analysis = IF fetchErr \/ noArticles THEN "none"
                                    ELSE AnalysisOf(reqs[r].shape, analysisErr)]
              failed == fetchErr \/ noArticles \/ Len(relevant) = 0
              given == StorageAddGenerations(users, reqs[r].user, 1)
              back == Refund(q, users, given)
          IN  /\ reqs' = [reqs EXCEPT ![r] =
                     IF fetchErr THEN Finish(back, "NewsError", FALSE)
                     ELSE IF noArticles THEN Finish(back, "NoNews", FALSE)
                     ELSE IF Len(relevant) = 0
                     THEN Finish(back, "NoRelevant", FALSE)
                     ELSE [q EXCEPT !.pc = "try", !.ncand = Len(relevant),
                                    !.cur = 1]]
              /\ users' = IF failed THEN given ELSE users
    /\ UNCHANGED <<payment, tally, shutdown, news, check, build, generations, purchases, credits, clock, userLastRequest>>

\* tryGeneratePost: whether a post is taken
AcceptPost(post) ==
    /\ ~isRejectedPost(post)
    /\ ByteLen(TrimSpace(post)) >= MinPostLen

\* for each post the generator may return: whether tryGeneratePost takes it
Accepted == [post \in Replies |-> AcceptPost(post)]

\* tryGeneratePost: one turn of its loop, for article cur
TryGeneratePost(r) ==
    /\ build = "BotStorage"
    /\ reqs[r].pc = "try"
    /\ \E genErr \in BOOLEAN, post \in Replies :
          LET q == [reqs[r] EXCEPT !.calls = Append(@,
                       [article |-> reqs[r].cur,
                        answer |-> IF genErr THEN "error" ELSE Answers[post].storage]),
                    !.blank = ~genErr /\ Answers[post].blank]
          IN  reqs' = [reqs EXCEPT ![r] =
                  IF ~genErr /\ Accepted[post]
                  THEN [q EXCEPT !.pc = "deliver", !.post = post, !.valid = TRUE]
                  ELSE IF q.cur < q.ncand
                  THEN [q EXCEPT !.cur = @ + 1]
                  ELSE [q EXCEPT !.pc = "deliver"]]
    /\ UNCHANGED <<payment, tally, shutdown, news, check, build, users, generations, purchases, credits, clock, userLastRequest>>

\* the result goes out, or the failure is reported and the generation is
\* given back
HandleGenerateDeliver(r) ==
    /\ build = "BotStorage"
    /\ reqs[r].pc = "deliver"
    /\ \E sent \in BOOLEAN :
          LET given == StorageAddGenerations(users, reqs[r].user, 1)
          IN  IF reqs[r].post # <<>>
              THEN /\ reqs' = [reqs EXCEPT ![r] = Finish(reqs[r], "Success", sent)]
                   /\ users' = users
              ELSE /\ reqs' = [reqs EXCEPT ![r] =
                          Finish(Refund(reqs[r], users, given), "GenerationFailed", FALSE)]
                   /\ users' = given
    /\ UNCHANGED <<payment, tally, shutdown, news, check, build, generations, purchases, credits, clock, userLastRequest>>

\* time passes between two messages
Tick ==
    /\ build \in {"BotStorage", "BotPlain"}
    /\ NoRequestRunning
    /\ clock + TickStep <= MaxClock
    /\ clock' = clock + TickStep
    /\ UNCHANGED <<payment, tally, shutdown, news, check, build, users, generations, purchases, credits, reqs, userLastRequest>>

(***************************************************************************)
(* Specification.                                                          *)
(***************************************************************************)
Next ==
    \/ \E r \in Requests, u \in UserIds : KwStart(r, u)
    \/ \E r \in Requests : KwFind(r)
    \/ \E r \in Requests : KwGenerate(r)
    \/ \E r \in Requests, u \in UserIds : UrlStart(r, u)
    \/ \E r \in Requests : UrlFetch(r)
    \/ \E r \in Requests : UrlGenerate(r)
    \/ \E r \in Requests : Debit(r)
    \/ \E r \in Requests : AddGeneration(r)
    \/ \E r \in Requests : Send(r)
    \/ \E u \in UserIds, n \in 1..MaxCreditCount : AdminAddGenerations(u, n)
    \/ \E u \in UserIds, p \in PurchasedPackages : Purchase(u, p)
    \/ \E r \in Requests, u \in UserIds : HandleGenerate(r, u)
    \/ \E r \in Requests : HandleGenerateFetch(r)
    \/ \E r \in Requests : TryGeneratePost(r)
    \/ \E r \in Requests : HandleGenerateDeliver(r)
    \/ Tick

Spec == Init /\ [][Next]_vars

(***************************************************************************)
(* Bot without a ledger (the second Bot of bot.go): handleGenerate is      *)
(* called in the update loop, it has the anti-spam check only.             *)
(***************************************************************************)
\* Bot.isRejectedPost of this bot: two phrases more
rejectionPhrasesPlain ==
    rejectionPhrases \o
  <<
    \* "я не могу"
    <<1103, 32, 1085, 1077, 32, 1084, 1086, 1075, 1091>>,
    \* "как искусственный интеллект"
    <<1082, 1072, 1082, 32, 1080, 1089, 1082, 1091, 1089, 1089, 1090, 1074, 1077, 1085, 1085, 1099, 1081, 32, 1080, 1085, 1090, 1077, 1083, 1083, 1077, 1082, 1090>>
  >>

isRejectedPostPlain(post) ==
    LET postLower == ToLower(post)
    IN  \E k \in 1..Len(rejectionPhrasesPlain) :
            Contains(postLower, ToLower(rejectionPhrasesPlain[k]))

\* for each post the generator may return: whether tryGeneratePost of this
\* bot takes it, and what an observer sees
AcceptedPlain ==
    [post \in Replies |->
        [taken |-> ~isRejectedPostPlain(post)
                      /\ ByteLen(TrimSpace(post)) >= MinPostLen,
         answer |-> Answer(FALSE, post, rejectionPhrasesPlain),
         blank |-> TrimSpace(post) = <<>>]]

\* Bot.isFirstRequest: userFirstRequest gets its entry at the first
\* message of a chat, and that message also sets userLastRequest
isFirstRequest(last) == last = -1

\* Bot.isTooFrequent
isTooFrequent(last, now) == last # -1 /\ now - last < SpamWindow

\* what the text of /generate is: a channel, a topic, or not usable (no
\* argument, "@" alone, fewer than 3 bytes)
Formats == {"channel", "topic", "bad"}

\* the anti-spam check, the format check, the progress message and the
\* analysis: a failed AnalyzeChannel ends the request
PlainHandleGenerate(r, userID) ==
    /\ build = "BotPlain"
    /\ NoRequestRunning
    /\ NextToArrive(r)
    /\ \E format \in Formats, analysisErr \in BOOLEAN :
          LET last == userLastRequest[userID]
              q == [reqs[r] EXCEPT !.user = userID, !.shape = format]
          IN  IF ~isFirstRequest(last) /\ isTooFrequent(last, clock)
              THEN /\ reqs' = [reqs EXCEPT ![r] = Finish(q, "RateLimited", FALSE)]
                   /\ UNCHANGED userLastRequest
              ELSE /\ userLastRequest' = [userLastRequest EXCEPT ![userID] = clock]
                   /\ reqs' = [reqs EXCEPT ![r] =
                          IF format = "bad" THEN Finish(q, "BadFormat", FALSE)
                          ELSE IF format = "channel" /\ analysisErr
                          THEN Finish(q, "AnalysisError", FALSE)
                          ELSE [q EXCEPT !.pc = "fetch",
                                         !.analysis = AnalysisOf(format, FALSE)]]
    /\ UNCHANGED <<payment, tally, shutdown, news, check, build, users, generations, purchases, credits,
                   clock>>

\* FetchAllArticles and FindRelevantArticles(ctx, articles, analysis, 3)
PlainFetch(r) ==
    /\ build = "BotPlain"
    /\ reqs[r].pc = "fetch"
    /\ \E fetchErr \in BOOLEAN, noArticles \in BOOLEAN,
          relevant \in ArticleLists(RelevantLimit) :
          LET q == [reqs[r] EXCEPT !.fetched = TRUE]
          IN  reqs' = [reqs EXCEPT ![r] =
                  IF fetchErr THEN Finish(q, "NewsError", FALSE)
                  ELSE IF noArticles THEN Finish(q, "NoNews", FALSE)
                  ELSE IF Len(relevant) = 0 THEN Finish(q, "NoRelevant", FALSE)
                  ELSE [q EXCEPT !.pc = "try", !.ncand = Len(relevant), !.cur = 1]]
    /\ UNCHANGED <<payment, tally, shutdown, news, check, build, users, generations, purchases, credits,
                   clock, userLastRequest>>

\* tryGeneratePost: one turn of its loop, for article cur
PlainTryGeneratePost(r) ==
    /\ build = "BotPlain"
    /\ reqs[r].pc = "try"
    /\ \E genErr \in BOOLEAN, post \in Replies :
          LET q == [reqs[r] EXCEPT !.calls = Append(@,
                       [article |-> reqs[r].cur,
                        answer |-> IF genErr THEN "error"
                                   ELSE AcceptedPlain[post].answer]),
                    !.blank = ~genErr /\ AcceptedPlain[post].blank]
          IN  reqs' = [reqs EXCEPT ![r] =
                  IF ~genErr /\ AcceptedPlain[post].taken
                  THEN [q EXCEPT !.pc = "deliver", !.post = post, !.valid = TRUE]
                  ELSE IF q.cur < q.ncand
                  THEN [q EXCEPT !.cur = @ + 1]
                  ELSE [q EXCEPT !.pc = "deliver"]]
    /\ UNCHANGED <<payment, tally, shutdown, news, check, build, users, generations, purchases, credits,
                   clock, userLastRequest>>

\* the post goes out, or the progress message is turned into the failure
PlainDeliver(r) ==
    /\ build = "BotPlain"
    /\ reqs[r].pc = "deliver"
    /\ \E sent \in BOOLEAN :
          reqs' = [reqs EXCEPT ![r] =
              IF reqs[r].post # <<>> THEN Finish(reqs[r], "Success", sent)
              ELSE Finish(reqs[r], "GenerationFailed", FALSE)]
    /\ UNCHANGED <<payment, tally, shutdown, news, check, build, users, generations, purchases, credits,
                   clock, userLastRequest>>

\* the two bots of bot.go, each handling the messages of its update loop
InitLoop ==
    /\ shutdown = "running"
    /\ tally = NoTally
    /\ payment = NoPayment
    /\ news = NoNewsRun
    /\ check = NoCheck
    /\ build \in {"BotStorage", "BotPlain"}
    /\ users \in InitUsers
    /\ generations = <<>>
    /\ purchases = <<>>
    /\ credits = 0
    /\ reqs = [r \in Requests |-> IdleReq]
    /\ clock = 0
    /\ userLastRequest = [u \in UserIds |-> -1]

NextLoop ==
    \/ \E r \in Requests, u \in UserIds : HandleGenerate(r, u)
    \/ \E r \in Requests : HandleGenerateFetch(r)
    \/ \E r \in Requests : TryGeneratePost(r)
    \/ \E r \in Requests : HandleGenerateDeliver(r)
    \/ \E r \in Requests, u \in UserIds : PlainHandleGenerate(r, u)
    \/ \E r \in Requests : PlainFetch(r)
    \/ \E r \in Requests : PlainTryGeneratePost(r)
    \/ \E r \in Requests : PlainDeliver(r)
    \/ Tick

SpecLoop == InitLoop /\ [][NextLoop]_vars

(***************************************************************************)
(* Two goroutines of one user on the last generation (bot over Database).  *)
(***************************************************************************)
\* the user whose requests race: the first
Racer == CHOOSE u \in UserIds : \A v \in UserIds : u <= v

InitRace ==
    /\ shutdown = "running"
    /\ tally = NoTally
    /\ payment = NoPayment
    /\ news = NoNewsRun
    /\ check = NoCheck
    /\ build \in {"BotDatabase", "BotDatabaseOld"}
    /\ users = [u \in UserIds |->
                   IF u = Racer THEN [exists |-> TRUE, avail |-> 1, total |-> 0]
                   ELSE NoUser]
    /\ generations = <<>>
    /\ purchases = <<>>
    /\ credits = 0
    /\ reqs = [r \in Requests |-> IdleReq]
    /\ clock = 0
    /\ userLastRequest = [u \in UserIds |-> -1]

NextRace ==
    \/ \E r \in Requests : KwStart(r, Racer)
    \/ \E r \in Requests : KwFind(r)
    \/ \E r \in Requests : KwGenerate(r)
    \/ \E r \in Requests : UrlStart(r, Racer)
    \/ \E r \in Requests : UrlFetch(r)
    \/ \E r \in Requests : UrlGenerate(r)
    \/ \E r \in Requests : Debit(r)
    \/ \E r \in Requests : AddGeneration(r)
    \/ \E r \in Requests : Send(r)

SpecRace == InitRace /\ [][NextRace]_vars

(***************************************************************************)
(* The refusal predicates on their own: a text is drawn, the predicates    *)
(* and the checks of both handlers are applied to it.                      *)
(***************************************************************************)
\* a letter in upper case (Latin, Cyrillic)
ToUpperRune(c) ==
    IF c >= 97 /\ c <= 122 THEN c - 32
    ELSE IF c >= 1072 /\ c <= 1103 THEN c - 32
    ELSE c

\* a phrase as a model may spell it
Recase(s, mode) ==
    CASE mode = "lower" -> s
      [] mode = "upper" -> [i \in 1..Len(s) |-> ToUpperRune(s[i])]
      [] mode = "title" -> [i \in 1..Len(s) |-> IF i = 1 THEN ToUpperRune(s[i]) ELSE s[i]]
      [] OTHER -> [i \in 1..Len(s) |-> IF i % 2 = 0 THEN ToUpperRune(s[i]) ELSE s[i]]

CaseModes == {"lower", "upper", "title", "mixed"}

\* every phrase of either list
AllPhrases ==
    {refusalPhrases[k] : k \in 1..Len(refusalPhrases)} \cup
    {rejectionPhrases[k] : k \in 1..Len(rejectionPhrases)}

\* what stands before a phrase: nothing, white space, "Увы, "
Leads == {<<>>, <<32, 10>>, <<1059, 1074, 1099, 44, 32>>}

\* what stands after a phrase: nothing, ".", " сейчас \n"
Trails == {<<>>, <<46>>, <<32, 1089, 1077, 1081, 1095, 1072, 1089, 32, 10>>}

\* texts holding a phrase, texts holding a phrase cut short, and the
\* answers of the model
TestPosts ==
    {lead \o Recase(ph, m) \o trail :
        lead \in Leads, ph \in AllPhrases, m \in CaseModes, trail \in Trails}
    \cup {lead \o SubSeq(ph, 1, Len(ph) - 1) : lead \in Leads, ph \in AllPhrases}
    \cup {SubSeq(ph, 2, Len(ph)) : ph \in AllPhrases}
    \cup Replies

InitRefusal ==
    /\ shutdown = "running"
    /\ tally = NoTally
    /\ payment = NoPayment
    /\ news = NoNewsRun
    /\ check \in {[NoCheck EXCEPT !.pc = "drawn", !.post = t] : t \in TestPosts}
    /\ build = "BotDatabase"
    /\ users = [u \in UserIds |-> NoUser]
    /\ generations = <<>>
    /\ purchases = <<>>
    /\ credits = 0
    /\ reqs = [r \in Requests |-> IdleReq]
    /\ clock = 0
    /\ userLastRequest = [u \in UserIds |-> -1]

\* the text goes through isGPTRefusal and the checks of the Database bot,
\* and through isRejectedPost and the acceptance test of tryGeneratePost
CheckRefusal ==
    /\ check.pc = "drawn"
    /\ check' = [check EXCEPT
                    !.pc = "checked",
                    !.isGPTRefusal = isGPTRefusal(check.post),
                    !.isRejectedPost = isRejectedPost(check.post),
                    !.verdict = CheckPost(GeneratePost(check.post)),
                    !.accepted = AcceptPost(check.post)]
    /\ UNCHANGED <<payment, tally, shutdown, news, build, users, generations, purchases, credits, reqs, clock, userLastRequest>>

SpecRefusal == InitRefusal /\ [][CheckRefusal]_vars

(***************************************************************************)
(* The news aggregator: the military-topics filter.                        *)
(***************************************************************************)
\* FilterOutMilitaryTopics of the aggregator whose FetchAllArticles filters:
\* the keyword list
militaryKeywords ==
  <<
    \* "война"
    <<1074, 1086, 1081, 1085, 1072>>,
    \* "воен"
    <<1074, 1086, 1077, 1085>>,
    \* "боев"
    <<1073, 1086, 1077, 1074>>,
    \* "оруж"
    <<1086, 1088, 1091, 1078>>,
    \* "атака"
    <<1072, 1090, 1072, 1082, 1072>>,
    \* "конфликт"
    <<1082, 1086, 1085, 1092, 1083, 1080, 1082, 1090>>,
    \* "наступление"
    <<1085, 1072, 1089, 1090, 1091, 1087, 1083, 1077, 1085, 1080, 1077>>,
    \* "оборона"
    <<1086, 1073, 1086, 1088, 1086, 1085, 1072>>,
    \* "спецоперация"
    <<1089, 1087, 1077, 1094, 1086, 1087, 1077, 1088, 1072, 1094, 1080, 1103>>,
    \* "ВСУ"
    <<1042, 1057, 1059>>,
    \* "ВС РФ"
    <<1042, 1057, 32, 1056, 1060>>,
    \* "минобороны"
    <<1084, 1080, 1085, 1086, 1073, 1086, 1088, 1086, 1085, 1099>>,
    \* "погиб"
    <<1087, 1086, 1075, 1080, 1073>>,
    \* "ранен"
    <<1088, 1072, 1085, 1077, 1085>>,
    \* "обстрел"
    <<1086, 1073, 1089, 1090, 1088, 1077, 1083>>,
    \* "взрыв"
    <<1074, 1079, 1088, 1099, 1074>>,
    \* "снаряд"
    <<1089, 1085, 1072, 1088, 1103, 1076>>,
    \* "танк"
    <<1090, 1072, 1085, 1082>>,
    \* "артиллерия"
    <<1072, 1088, 1090, 1080, 1083, 1083, 1077, 1088, 1080, 1103>>,
    \* "авиация"
    <<1072, 1074, 1080, 1072, 1094, 1080, 1103>>,
    \* "фронт"
    <<1092, 1088, 1086, 1085, 1090>>,
    \* "пленных"
    <<1087, 1083, 1077, 1085, 1085, 1099, 1093>>,
    \* "удар"
    <<1091, 1076, 1072, 1088>>,
    \* "контрнаступление"
    <<1082, 1086, 1085, 1090, 1088, 1085, 1072, 1089, 1090, 1091, 1087, 1083, 1077, 1085, 1080, 1077>>,
    \* "ЗСУ"
    <<1047, 1057, 1059>>,
    \* "боеприпас"
    <<1073, 1086, 1077, 1087, 1088, 1080, 1087, 1072, 1089>>,
    \* "мина"
    <<1084, 1080, 1085, 1072>>,
    \* "ракета"
    <<1088, 1072, 1082, 1077, 1090, 1072>>,
    \* "дрон"
    <<1076, 1088, 1086, 1085>>,
    \* "БПЛА"
    <<1041, 1055, 1051, 1040>>,
    \* "кадыров"
    <<1082, 1072, 1076, 1099, 1088, 1086, 1074>>,
    \* "пригожин"
    <<1087, 1088, 1080, 1075, 1086, 1078, 1080, 1085>>,
    \* "чвк"
    <<1095, 1074, 1082>>,
    \* "мобилизация"
    <<1084, 1086, 1073, 1080, 1083, 1080, 1079, 1072, 1094, 1080, 1103>>,
    \* "призыв"
    <<1087, 1088, 1080, 1079, 1099, 1074>>,
    \* "окоп"
    <<1086, 1082, 1086, 1087>>,
    \* "позиция"
    <<1087, 1086, 1079, 1080, 1094, 1080, 1103>>,
    \* "штурм"
    <<1096, 1090, 1091, 1088, 1084>>
  >>

\* FilterOutMilitaryTopics of the aggregator of the first keyword search
\* (package news, FindRelevantArticles(keywords, maxArticles)): the keyword list
militaryKeywordsKeywordSearch ==
  <<
    \* "война"
    <<1074, 1086, 1081, 1085, 1072>>,
    \* "воен"
    <<1074, 1086, 1077, 1085>>,
    \* "боев"
    <<1073, 1086, 1077, 1074>>,
    \* "оруж"
    <<1086, 1088, 1091, 1078>>,
    \* "атака"
    <<1072, 1090, 1072, 1082, 1072>>,
    \* "конфликт"
    <<1082, 1086, 1085, 1092, 1083, 1080, 1082, 1090>>,
    \* "наступление"
    <<1085, 1072, 1089, 1090, 1091, 1087, 1083, 1077, 1085, 1080, 1077>>,
    \* "оборона"
    <<1086, 1073, 1086, 1088, 1086, 1085, 1072>>,
    \* "спецоперация"
    <<1089, 1087, 1077, 1094, 1086, 1087, 1077, 1088, 1072, 1094, 1080, 1103>>,
    \* "ВСУ"
    <<1042, 1057, 1059>>,
    \* "ВС РФ"
    <<1042, 1057, 32, 1056, 1060>>,
    \* "минобороны"
    <<1084, 1080, 1085, 1086, 1073, 1086, 1088, 1086, 1085, 1099>>,
    \* "погиб"
    <<1087, 1086, 1075, 1080, 1073>>,
    \* "ранен"
    <<1088, 1072, 1085, 1077, 1085>>,
    \* "обстрел"
    <<1086, 1073, 1089, 1090, 1088, 1077, 1083>>,
    \* "взрыв"
    <<1074, 1079, 1088, 1099, 1074>>,
    \* "снаряд"
    <<1089, 1085, 1072, 1088, 1103, 1076>>,
    \* "танк"
    <<1090, 1072, 1085, 1082>>,
    \* "артиллерия"
    <<1072, 1088, 1090, 1080, 1083, 1083, 1077, 1088, 1080, 1103>>
  >>

\* FilterOutMilitaryTopics of the later keyword search: the keyword list
militaryKeywordsLowerCase ==
  <<
    \* "война"
    <<1074, 1086, 1081, 1085, 1072>>,
    \* "воен"
    <<1074, 1086, 1077, 1085>>,
    \* "боев"
    <<1073, 1086, 1077, 1074>>,
    \* "оруж"
    <<1086, 1088, 1091, 1078>>,
    \* "атака"
    <<1072, 1090, 1072, 1082, 1072>>,
    \* "конфликт"
    <<1082, 1086, 1085, 1092, 1083, 1080, 1082, 1090>>,
    \* "наступление"
    <<1085, 1072, 1089, 1090, 1091, 1087, 1083, 1077, 1085, 1080, 1077>>,
    \* "оборона"
    <<1086, 1073, 1086, 1088, 1086, 1085, 1072>>,
    \* "спецоперация"
    <<1089, 1087, 1077, 1094, 1086, 1087, 1077, 1088, 1072, 1094, 1080, 1103>>,
    \* "минобороны"
    <<1084, 1080, 1085, 1086, 1073, 1086, 1088, 1086, 1085, 1099>>,
    \* "погиб"
    <<1087, 1086, 1075, 1080, 1073>>,
    \* "ранен"
    <<1088, 1072, 1085, 1077, 1085>>,
    \* "обстрел"
    <<1086, 1073, 1089, 1090, 1088, 1077, 1083>>,
    \* "взрыв"
    <<1074, 1079, 1088, 1099, 1074>>,
    \* "снаряд"
    <<1089, 1085, 1072, 1088, 1103, 1076>>,
    \* "танк"
    <<1090, 1072, 1085, 1082>>,
    \* "артиллерия"
    <<1072, 1088, 1090, 1080, 1083, 1083, 1077, 1088, 1080, 1103>>,
    \* "залп"
    <<1079, 1072, 1083, 1087>>,
    \* "мин"
    <<1084, 1080, 1085>>,
    \* "осколок"
    <<1086, 1089, 1082, 1086, 1083, 1086, 1082>>,
    \* "сражение"
    <<1089, 1088, 1072, 1078, 1077, 1085, 1080, 1077>>,
    \* "битва"
    <<1073, 1080, 1090, 1074, 1072>>,
    \* "убит"
    <<1091, 1073, 1080, 1090>>,
    \* "убийств"
    <<1091, 1073, 1080, 1081, 1089, 1090, 1074>>,
    \* "убийство"
    <<1091, 1073, 1080, 1081, 1089, 1090, 1074, 1086>>,
    \* "смерть"
    <<1089, 1084, 1077, 1088, 1090, 1100>>,
    \* "погибш"
    <<1087, 1086, 1075, 1080, 1073, 1096>>,
    \* "стрельб"
    <<1089, 1090, 1088, 1077, 1083, 1100, 1073>>,
    \* "перестрелк"
    <<1087, 1077, 1088, 1077, 1089, 1090, 1088, 1077, 1083, 1082>>,
    \* "террорист"
    <<1090, 1077, 1088, 1088, 1086, 1088, 1080, 1089, 1090>>,
    \* "теракт"
    <<1090, 1077, 1088, 1072, 1082, 1090>>,
    \* "диверсант"
    <<1076, 1080, 1074, 1077, 1088, 1089, 1072, 1085, 1090>>,
    \* "диверсия"
    <<1076, 1080, 1074, 1077, 1088, 1089, 1080, 1103>>,
    \* "противостояние"
    <<1087, 1088, 1086, 1090, 1080, 1074, 1086, 1089, 1090, 1086, 1103, 1085, 1080, 1077>>,
    \* "противоречие"
    <<1087, 1088, 1086, 1090, 1080, 1074, 1086, 1088, 1077, 1095, 1080, 1077>>,
    \* "столкновение"
    <<1089, 1090, 1086, 1083, 1082, 1085, 1086, 1074, 1077, 1085, 1080, 1077>>,
    \* "эскалация"
    <<1101, 1089, 1082, 1072, 1083, 1072, 1094, 1080, 1103>>,
    \* "насилие"
    <<1085, 1072, 1089, 1080, 1083, 1080, 1077>>
  >>

\* the text containsMilitaryTopics looks at: Title + " " + Summary, in lower case
articleText(article) == ToLower(article.title \o <<32>> \o article.summary)

\* containsMilitaryTopics where every keyword is lower-cased before the search
containsMilitaryTopicsLowered(article, keywords) ==
    \E k \in 1..Len(keywords) : Contains(articleText(article), ToLower(keywords[k]))

\* containsMilitaryTopics where the keyword is searched as it is written
containsMilitaryTopics(article, keywords) ==
    \E k \in 1..Len(keywords) : Contains(articleText(article), keywords[k])

\* the aggregators of the repository that filter, by what they do
Filters == {"FetchFilter", "KeywordSearch", "KeywordSearchLowerCase"}

\* the keyword list of a filter
KeywordsOf(filter) ==
    CASE filter = "FetchFilter" -> militaryKeywords
      [] filter = "KeywordSearch" -> militaryKeywordsKeywordSearch
      [] OTHER -> militaryKeywordsLowerCase

\* whether FilterOutMilitaryTopics of a filter drops the article
Dropped(article, filter) ==
    IF filter = "FetchFilter"
    THEN containsMilitaryTopicsLowered(article, militaryKeywords)
    ELSE containsMilitaryTopics(article, KeywordsOf(filter))

\* FilterOutMilitaryTopics: the articles that are kept, in their order
FilterOutMilitaryTopics(articles, filter) ==
    LET Kept(a) == ~Dropped(a, filter)
    IN  SelectSeq(articles, Kept)

\* the article's text holds a keyword of the list, in any case
Blocklisted(article, keywords) ==
    MentionsAny(article.title \o <<32>> \o article.summary, keywords)

\* while the aggregator is looked at the bot is at rest
BotAtRest ==
    /\ shutdown = "running"
    /\ tally = NoTally
    /\ payment = NoPayment
    /\ check = NoCheck
    /\ build = "BotDatabase"
    /\ users = [u \in UserIds |-> NoUser]
    /\ generations = <<>>
    /\ purchases = <<>>
    /\ credits = 0
    /\ reqs = [r \in Requests |-> IdleReq]
    /\ clock = 0
    /\ userLastRequest = [u \in UserIds |-> -1]

\* the bot stays at rest
BotUnchanged ==
    UNCHANGED <<payment, tally, shutdown, check, build, users, generations, purchases, credits, reqs,
                clock, userLastRequest>>

(***************************************************************************)
(* The news aggregator: FetchAllArticles.                                  *)
(***************************************************************************)
\* registered sources
MaxSources == 2
\* articles of one feed
MaxFeed == 2

Sources == 1..MaxSources

\* "Новый смартфон"
CleanTitle ==
    <<1053, 1086, 1074, 1099, 1081, 32, 1089, 1084, 1072, 1088, 1090, 1092, 1086, 1085>>
\* "Взрыв на складе"
BlockedTitle ==
    <<1042, 1079, 1088, 1099, 1074, 32, 1085, 1072, 32, 1089, 1082, 1083, 1072, 1076, 1077>>

FeedTitles == {CleanTitle, BlockedTitle}

\* what source.FetchArticles() gives: an error, or the titles of its articles
FetchResults ==
    {[ok |-> FALSE, titles |-> <<>>]}
    \cup {[ok |-> TRUE, titles |-> t] :
             t \in UNION {[1..n -> FeedTitles] : n \in 0..MaxFeed}}

\* the articles of a feed: the n-th article of source s has its own URL
Feed(s, fetched) ==
    [ok |-> fetched.ok,
     articles |-> [n \in 1..Len(fetched.titles) |->
                      [source |-> s, url |-> <<s, n>>,
                       title |-> fetched.titles[n], summary |-> <<>>]]]

\* the versions of FetchAllArticles: one goroutine per source, a loop over
\* the sources, and the loop that filters what it collected
Aggregators == {"Goroutines", "Loop", "FetchFilter"}

InitAggregate ==
    /\ BotAtRest
    /\ news \in {[pc |-> "run", aggregator |-> a,
                  feeds |-> [s \in Sources |-> Feed(s, f[s])],
                  at |-> [s \in Sources |-> "start"],
                  slice |-> [s \in Sources |-> <<>>],
                  locked |-> FALSE,
                  allArticles |-> <<>>, result |-> <<>>, err |-> FALSE] :
                    a \in Aggregators, f \in [Sources -> FetchResults]}

\* mu.Lock() goes through while no goroutine holds mu
CanLockAlways(locked) == TRUE

CanLock(locked) == ~locked

\* wg.Wait() goes through at once
WgWaitNone(at) == TRUE

\* wg.Wait() goes through when every goroutine has called wg.Done()
WgWait(at) == \A s \in Sources : at[s] = "done"

\* the goroutine of source s: s.FetchArticles(); on an error it logs and returns
GoFetch(s) ==
    /\ news.pc = "run"
    /\ news.aggregator = "Goroutines"
    /\ news.at[s] = "start"
    /\ news' = [news EXCEPT !.at[s] = IF news.feeds[s].ok THEN "fetched" ELSE "done"]
    /\ BotUnchanged

\* mu.Lock(), and append reads the slice it will extend
GoLock(s) ==
    /\ news.aggregator = "Goroutines"
    /\ news.at[s] = "fetched"
    /\ CanLock(news.locked)
    /\ news' = [news EXCEPT !.at[s] = "locked", !.locked = TRUE,
                            !.slice[s] = news.allArticles]
    /\ BotUnchanged

\* allArticles = append(allArticles, articles...), mu.Unlock(), wg.Done()
GoAppend(s) ==
    /\ news.aggregator = "Goroutines"
    /\ news.at[s] = "locked"
    /\ news' = [news EXCEPT !.at[s] = "done", !.locked = FALSE,
                            !.slice[s] = <<>>,
                            !.allArticles = news.slice[s] \o news.feeds[s].articles]
    /\ BotUnchanged

\* wg.Wait() and the return
Wait ==
    /\ news.pc = "run"
    /\ news.aggregator = "Goroutines"
    /\ WgWait(news.at)
    /\ news' = [news EXCEPT !.pc = "returned", !.result = news.allArticles,
                            !.err = FALSE]
    /\ BotUnchanged

\* one round of the loop over na.sources: an error is logged and the loop
\* goes on with the next source
LoopFetch(s) ==
    /\ news.pc = "run"
    /\ news.aggregator \in {"Loop", "FetchFilter"}
    /\ news.at[s] = "start"
    /\ \A t \in Sources : t < s => news.at[t] = "done"
    /\ news' = [news EXCEPT
                   !.at[s] = "done",
                   !.allArticles = IF news.feeds[s].ok
                                   THEN @ \o news.feeds[s].articles ELSE @]
    /\ BotUnchanged

\* after the loop: the filtering version returns what the filter keeps
LoopReturn ==
    /\ news.pc = "run"
    /\ news.aggregator \in {"Loop", "FetchFilter"}
    /\ \A s \in Sources : news.at[s] = "done"
    /\ news' = [news EXCEPT
                   !.pc = "returned",
                   !.result = IF news.aggregator = "FetchFilter"
                              THEN FilterOutMilitaryTopics(news.allArticles, "FetchFilter")
                              ELSE news.allArticles,
                   !.err = FALSE]
    /\ BotUnchanged

NextAggregate ==
    \/ \E s \in Sources : GoFetch(s)
    \/ \E s \in Sources : GoLock(s)
    \/ \E s \in Sources : GoAppend(s)
    \/ Wait
    \/ \E s \in Sources : LoopFetch(s)
    \/ LoopReturn

SpecAggregate == InitAggregate /\ [][NextAggregate]_vars

(***************************************************************************)
(* The military-topics filter on its own: an article is drawn and goes     *)
(* through FilterOutMilitaryTopics of one of the aggregators.              *)
(***************************************************************************)
\* "Сегодня: "
TitleLead == <<1057, 1077, 1075, 1086, 1076, 1085, 1103, 58, 32>>

\* the articles handed to the filter: a clean one, and for every keyword of
\* every list an article with the keyword, in some case, in its title or in
\* its summary
TestArticles ==
    {[source |-> 1, url |-> <<1, 1>>, title |-> CleanTitle, summary |-> <<>>]}
    \cup UNION {{[source |-> 1, url |-> <<1, 1>>,
                  title |-> TitleLead \o Recase(KeywordsOf(f)[k], m), summary |-> <<>>] :
                    k \in 1..Len(KeywordsOf(f)), m \in CaseModes} : f \in Filters}
    \cup UNION {{[source |-> 1, url |-> <<1, 1>>,
                  title |-> CleanTitle, summary |-> Recase(KeywordsOf(f)[k], m)] :
                    k \in 1..Len(KeywordsOf(f)), m \in {"lower", "upper"}} : f \in Filters}

InitFilter ==
    /\ BotAtRest
    /\ news \in {[pc |-> "drawn", filter |-> f, article |-> a, kept |-> FALSE] :
                    f \in Filters, a \in TestArticles}

\* FilterOutMilitaryTopics on the one article; what it keeps goes on to the
\* scoring
FilterArticle ==
    /\ news.pc = "drawn"
    /\ news' = [news EXCEPT
                   !.pc = "filtered",
                   !.kept = FilterOutMilitaryTopics(<<news.article>>, news.filter) # <<>>]
    /\ BotUnchanged

SpecFilter == InitFilter /\ [][FilterArticle]_vars

(***************************************************************************)
(* The news aggregator: ranking (FindRelevantArticles of the channel       *)
(* analysis). Relevance is counted in hundredths.                          *)
(***************************************************************************)
\* articles handed to the ranking
MaxRanked == 5
\* the largest maxArticles asked for
MaxLimit == 2

\* the categories of package categories, and what DetectCategory and
\* determineChannelCategory answer when nothing matches ("Общее")
Categories == {"IT", "Business", "Science", "Gadgets"}

General == "General"

\* for category, ... := range categories with "if score > maxScore": the
\* map is walked in an order the runtime picks, and the first category of
\* the walk that has the highest score wins; with no score above zero the
\* answer stays "Общее"
BestCategories(score) ==
    LET top == Max({score[c] : c \in Categories})
    IN  IF top <= 0 THEN {General} ELSE {c \in Categories : score[c] = top}

\* categories.DetectCategory: the keywords of each category found in the text
DetectCategory(article) ==
    BestCategories([c \in Categories |-> IF c \in article.tags THEN 1 ELSE 0])

\* CalculatePreciseRelevance for an analysis whose keywords, main topic and
\* subtopics are not in the text and whose category does not prefer the
\* article's source: category match 0.5, published in the last 6 hours 0.2
CalculatePreciseRelevance(article, articleCategory, channelCategory) ==
    LET category == IF articleCategory = channelCategory THEN 50 ELSE 0
        freshness == IF article.fresh THEN 20 ELSE 0
    IN  Min({100, category + freshness})

\* sort.Slice(articles, Relevance greater first) on a list of at most 12
\* elements: an insertion sort, an element moves left past the elements
\* with a smaller relevance
RECURSIVE SortByRelevance(_)
SortByRelevance(articles) ==
    IF Len(articles) <= 1 THEN articles
    ELSE LET n == Len(articles)
             head == SortByRelevance(SubSeq(articles, 1, n - 1))
             last == articles[n]
             p == Cardinality({i \in 1..(n - 1) : head[i].relevance >= last.relevance})
         IN  SubSeq(head, 1, p) \o <<last>> \o SubSeq(head, p + 1, n - 1)

\* the URLs of a list
Urls(articles) == {articles[i].url : i \in 1..Len(articles)}

\* the sources of a list
SourcesOf(articles) == {articles[i].source : i \in 1..Len(articles)}

\* first loop of selectDiverseArticles: the first article of every source
\* not used yet, until maxArticles are taken
RECURSIVE PickDiverse(_, _, _, _)
PickDiverse(articles, i, result, maxArticles) ==
    IF i > Len(articles) \/ Len(result) >= maxArticles THEN result
    ELSE PickDiverse(articles, i + 1,
                     IF articles[i].source \in SourcesOf(result) THEN result
                     ELSE Append(result, articles[i]),
                     maxArticles)

\* second loop of selectDiverseArticles: articles whose URL is not in the
\* result yet, until maxArticles are taken
RECURSIVE Backfill(_, _, _, _)
Backfill(articles, i, result, maxArticles) ==
    IF i > Len(articles) \/ Len(result) >= maxArticles THEN result
    ELSE Backfill(articles, i + 1,
                  IF articles[i].url \in Urls(result) THEN result
                  ELSE Append(result, articles[i]),
                  maxArticles)

selectDiverseArticles(articles, maxArticles) ==
    LET result == PickDiverse(articles, 1, <<>>, maxArticles)
    IN  IF Len(result) < maxArticles
        THEN Backfill(articles, 1, result, maxArticles)
        ELSE result

\* first loop of FindRelevantArticles: the articles above 0.6, the loop
\* breaks once 2 * maxArticles are collected
RECURSIVE TakeRelevant(_, _, _, _)
TakeRelevant(articles, i, relevantArticles, maxArticles) ==
    IF i > Len(articles) THEN relevantArticles
    ELSE LET added == IF articles[i].relevance > 60
                      THEN Append(relevantArticles, articles[i])
                      ELSE relevantArticles
         IN  IF Len(added) >= maxArticles * 2 THEN added
             ELSE TakeRelevant(articles, i + 1, added, maxArticles)

\* second loop of FindRelevantArticles: the articles above 0.4 whose URL is
\* not collected yet, while fewer than 2 * maxArticles are collected
RECURSIVE TakeLessRelevant(_, _, _, _)
TakeLessRelevant(articles, i, relevantArticles, maxArticles) ==
    IF i > Len(articles) THEN relevantArticles
    ELSE TakeLessRelevant(articles, i + 1,
             IF /\ articles[i].relevance > 40
                /\ Len(relevantArticles) < maxArticles * 2
                /\ articles[i].url \notin Urls(relevantArticles)
             THEN Append(relevantArticles, articles[i])
             ELSE relevantArticles,
             maxArticles)

\* FindRelevantArticles(ctx, articles, analysis, maxArticles), given what
\* determineChannelCategory and DetectCategory answered
FindRelevantArticles(articles, channelCategory, articleCategory, maxArticles) ==
    IF Len(articles) = 0 THEN <<>>
    ELSE LET scored == [i \in 1..Len(articles) |->
                           [source |-> articles[i].source, url |-> articles[i].url,
                            relevance |-> CalculatePreciseRelevance(
                                articles[i], articleCategory[i], channelCategory)]]
             sorted == SortByRelevance(scored)
             above == TakeRelevant(sorted, 1, <<>>, maxArticles)
             relevantArticles == IF Len(above) < maxArticles
                                 THEN TakeLessRelevant(sorted, 1, above, maxArticles)
                                 ELSE above
         IN  selectDiverseArticles(relevantArticles, maxArticles)

\* the sources the ranked articles come from
RankedSources == 1..2

\* what the text and the date of an article may be: keywords of one
\* category, a day old or fresh, or as many keywords of a second category
UntiedKinds ==
    {[tags |-> {"IT"}, fresh |-> FALSE], [tags |-> {"IT"}, fresh |-> TRUE]}

TiedKinds ==
    UntiedKinds \cup {[tags |-> {"IT", "Business"}, fresh |-> TRUE]}

\* lists of up to n articles: each from some source, of some kind, each
\* with its own URL
ListsOf(kinds, n) ==
    UNION {{[i \in 1..m |-> [source |-> src[i], url |-> <<0, i>>,
                             tags |-> kind[i].tags, fresh |-> kind[i].fresh]] :
               src \in [1..m -> RankedSources],
               kind \in [1..m -> kinds]} : m \in 0..n}

\* the articles handed to the ranking: long lists of articles of one
\* category, short lists where an article may belong to two
RankedLists == ListsOf(UntiedKinds, MaxRanked) \cup ListsOf(TiedKinds, MaxLimit)

\* what the loop of determineChannelCategory counts for a channel: the
\* analysis speaks of one category only, or as much of two
ChannelScores ==
    {[c \in Categories |-> IF c = "IT" THEN 2 ELSE 0],
     [c \in Categories |-> IF c \in {"IT", "Business"} THEN 2 ELSE 0]}

InitRank ==
    /\ BotAtRest
    /\ news \in {[pc |-> "drawn", articles |-> a, score |-> s, maxArticles |-> k,
                  channelCategory |-> General, articleCategory |-> <<>>,
                  first |-> <<>>, second |-> <<>>] :
                    a \in RankedLists, s \in ChannelScores, k \in 1..MaxLimit}

\* the answers DetectCategory may give for the articles of a list
RECURSIVE ArticleCategories(_)
ArticleCategories(articles) ==
    IF Len(articles) = 0 THEN {<<>>}
    ELSE {Append(f, c) :
             f \in ArticleCategories(SubSeq(articles, 1, Len(articles) - 1)),
             c \in DetectCategory(articles[Len(articles)])}

\* FindRelevantArticles is called twice with the same list, analysis and
\* maxArticles; the categories the first call worked with are kept
RankTwice ==
    /\ news.pc = "drawn"
    /\ \E c1 \in BestCategories(news.score), c2 \in BestCategories(news.score),
          a1 \in ArticleCategories(news.articles),
          a2 \in ArticleCategories(news.articles) :
          news' = [news EXCEPT
                      !.pc = "ranked",
                      !.channelCategory = c1,
                      !.articleCategory = a1,
                      !.first = FindRelevantArticles(news.articles, c1, a1,
                                                     news.maxArticles),
                      !.second = FindRelevantArticles(news.articles, c2, a2,
                                                      news.maxArticles)]
    /\ BotUnchanged

SpecRank == InitRank /\ [][RankTwice]_vars

(***************************************************************************)
(* The sorts of the rankings on their own.                                 *)
(***************************************************************************)
\* articles handed to a sort
MaxSorted == 3

\* the lists to sort: the i-th article carries its place in the input, a
\* relevance and a publication time
SortedLists ==
    UNION {{[i \in 1..n |-> [url |-> <<0, i>>, relevance |-> rel[i],
                             publishedAt |-> at[i]]] :
               rel \in [1..n -> {3, 5}], at \in [1..n -> {0, 1}]} : n \in 0..MaxSorted}

\* whether sortArticlesByRelevance swaps articles[i] and articles[j]
Swaps(a, b) ==
    \/ a.relevance < b.relevance
    \/ a.relevance = b.relevance /\ a.publishedAt < b.publishedAt

\* sortArticlesByRelevance, from the round (i, j) of its two loops on
RECURSIVE ExchangeSort(_, _, _)
ExchangeSort(articles, i, j) ==
    IF i > Len(articles) - 1 THEN articles
    ELSE IF j > Len(articles) THEN ExchangeSort(articles, i + 1, i + 2)
    ELSE ExchangeSort(IF Swaps(articles[i], articles[j])
                      THEN [articles EXCEPT ![i] = articles[j], ![j] = articles[i]]
                      ELSE articles,
                      i, j + 1)

sortArticlesByRelevance(articles) == ExchangeSort(articles, 1, 2)

\* the sorts of the rankings
Sorts == {"sort.Slice", "sortArticlesByRelevance"}

InitSort ==
    /\ BotAtRest
    /\ news \in {[pc |-> "drawn", sort |-> s, articles |-> a, sorted |-> <<>>] :
                    s \in Sorts, a \in SortedLists}

SortArticles ==
    /\ news.pc = "drawn"
    /\ news' = [news EXCEPT
                   !.pc = "sorted",
                   !.sorted = IF news.sort = "sort.Slice"
                              THEN SortByRelevance(news.articles)
                              ELSE sortArticlesByRelevance(news.articles)]
    /\ BotUnchanged

SpecSort == InitSort /\ [][SortArticles]_vars

(***************************************************************************)
(* selectDiverseArticles on its own.                                       *)
(***************************************************************************)
\* candidates handed to the selection
MaxSelected == 3

\* the candidates: sorted by relevance, each from some source; two
\* candidates may carry the same URL
CandidateLists ==
    UNION {{c \in [1..n -> [source : RankedSources, url : {<<0, 1>>, <<0, 2>>},
                            relevance : {7, 9}]] :
               \A i \in 1..(n - 1) : c[i].relevance >= c[i + 1].relevance} :
              n \in 0..MaxSelected}

InitSelect ==
    /\ BotAtRest
    /\ news \in {[pc |-> "drawn", articles |-> c, maxArticles |-> k,
                  result |-> <<>>] : c \in CandidateLists, k \in 1..MaxLimit}

SelectArticles ==
    /\ news.pc = "drawn"
    /\ news' = [news EXCEPT
                   !.pc = "selected",
                   !.result = selectDiverseArticles(news.articles, news.maxArticles)]
    /\ BotUnchanged

SpecSelect == InitSelect /\ [][SelectArticles]_vars

(***************************************************************************)
(* Shutdown: main cancels the context it gave to Bot.Start, waits two      *)
(* seconds and returns. The handlers of /generate run on                   *)
(* context.Background().                                                   *)
(***************************************************************************)
InitCancel ==
    /\ shutdown = "running"
    /\ tally = NoTally
    /\ payment = NoPayment
    /\ news = NoNewsRun
    /\ check = NoCheck
    /\ build \in {"BotDatabase", "BotDatabaseOld"}
    /\ users \in InitUsers
    /\ generations = <<>>
    /\ purchases = <<>>
    /\ credits = 0
    /\ reqs = [r \in Requests |-> IdleReq]
    /\ clock = 0
    /\ userLastRequest = [u \in UserIds |-> -1]

\* main: a signal arrived, cancel(); the goroutine of Bot.Start that waits
\* on ctx.Done() writes a log line
Cancel ==
    /\ shutdown = "running"
    /\ tally = NoTally
    /\ payment = NoPayment
    /\ shutdown' = "cancelled"
    /\ UNCHANGED <<payment, tally, news, check, build, users, generations, purchases, credits, reqs,
                   clock, userLastRequest>>

\* main returns after time.Sleep(2 * time.Second): every goroutine ends
\* where it stands
Exit ==
    /\ shutdown = "cancelled"
    /\ shutdown' = "exited"
    /\ UNCHANGED <<payment, tally, news, check, build, users, generations, purchases, credits, reqs,
                   clock, userLastRequest>>

NextCancel ==
    \/ shutdown # "exited" /\ NextRace
    \/ Cancel
    \/ Exit

SpecCancel == InitCancel /\ [][NextCancel]_vars

(***************************************************************************)
(* The news aggregator: ranking by keywords                                *)
(* (FindRelevantArticlesForKeywords) and by a channel analysis, with the   *)
(* texts of the analysis and of the articles compared.                     *)
(***************************************************************************)
\* articles handed to the ranking by keywords
MaxKeywordRanked == 2

\* strings.Fields: the words between runs of white space
RECURSIVE Fields(_)
Fields(s) ==
    IF Len(s) = 0 THEN <<>>
    ELSE IF IsSpace(s[1]) THEN Fields(Tail(s))
    ELSE LET stop == Min({i \in 1..Len(s) : IsSpace(s[i])} \cup {Len(s) + 1})
         IN  <<SubSeq(s, 1, stop - 1)>> \o Fields(SubSeq(s, stop, Len(s)))

\* strings.Join(elems, " ")
RECURSIVE Join(_)
Join(elems) ==
    IF Len(elems) = 0 THEN <<>>
    ELSE IF Len(elems) = 1 THEN elems[1]
    ELSE elems[1] \o <<32>> \o Join(Tail(elems))

\* "ai", "hr" and "AI"
Ai == <<97, 105>>
Hr == <<104, 114>>
AiUpper == <<65, 73>>

\* categories.GetCategories, the part the short texts of the model can
\* meet: "AI" of "IT и технологии", "HR" of "Бизнес и стартапы"
CategoryKeywords(c) ==
    CASE c = "IT" -> {AiUpper}
      [] c = "Business" -> {<<72, 82>>}
      [] OTHER -> {}

\* Category.Sources: source 1 ("Хабрахабр") is preferred by "IT и технологии"
CategorySources(c) == IF c = "IT" THEN {1} ELSE {}

\* how many keywords of a category a text contains
KeywordMatches(text, c) ==
    Cardinality({k \in CategoryKeywords(c) : Contains(text, ToLower(k))})

\* categories.DetectCategory(text): the answers it may give
DetectCategoryOfText(text) ==
    BestCategories([c \in Categories |-> KeywordMatches(ToLower(text), c)])

\* determineChannelCategory(analysis): the answers it may give. No text of
\* the model is as long as the name or a subtopic of a category, so the
\* 10 for the name and the 3 for a subtopic are never counted
determineChannelCategory(analysis) ==
    LET text == ToLower(analysis.MainTopic \o <<32>> \o Join(analysis.Subtopics)
                            \o <<32>> \o Join(analysis.Keywords))
    IN  BestCategories([c \in Categories |-> 2 * KeywordMatches(text, c)])

\* CalculatePreciseRelevance: 0.15 for each keyword of the analysis found in
\* the text
KeywordSignal(article, analysis) ==
    15 * Cardinality({i \in 1..Len(analysis.Keywords) :
                         Contains(ToLower(article.text), ToLower(analysis.Keywords[i]))})

\* CalculatePreciseRelevance: 0.3 for the main topic, 0.1 for each subtopic
TopicSignal(article, analysis) ==
    (IF Contains(ToLower(article.text), ToLower(analysis.MainTopic)) THEN 30 ELSE 0)
    + 10 * Cardinality({i \in 1..Len(analysis.Subtopics) :
                           Contains(ToLower(article.text), ToLower(analysis.Subtopics[i]))})

\* CalculatePreciseRelevance: the hours since the article was published
FreshnessSignal(article) ==
    IF article.hours < 6 THEN 20
    ELSE IF article.hours < 12 THEN 15
    ELSE IF article.hours < 24 THEN 10
    ELSE 0

\* CalculatePreciseRelevance: 0.1 for a source the category prefers
SourceSignal(article, channelCategory) ==
    IF article.source \in CategorySources(channelCategory) THEN 10 ELSE 0

\* CalculatePreciseRelevance(article, analysis, channelCategory), given what
\* DetectCategory answered for the article: 0.5 for the category, then the
\* signals, at most 1.0
CalculatePreciseRelevanceOfAnalysis(article, analysis, articleCategory, channelCategory) ==
    LET category == IF articleCategory = channelCategory THEN 50 ELSE 0
    IN  Min({100, category + KeywordSignal(article, analysis)
                      + TopicSignal(article, analysis) + FreshnessSignal(article)
                      + SourceSignal(article, channelCategory)})

\* FindRelevantArticles(ctx, articles, analysis, maxArticles), given what
\* determineChannelCategory and DetectCategory answered
FindRelevantArticlesOfAnalysis(articles, analysis, channelCategory, articleCategory, maxArticles) ==
    IF Len(articles) = 0 THEN <<>>
    ELSE LET scored == [i \in 1..Len(articles) |->
                           [source |-> articles[i].source, url |-> articles[i].url,
                            relevance |-> CalculatePreciseRelevanceOfAnalysis(
                                articles[i], analysis, articleCategory[i],
                                channelCategory)]]
             sorted == SortByRelevance(scored)
             above == TakeRelevant(sorted, 1, <<>>, maxArticles)
             relevantArticles == IF Len(above) < maxArticles
                                 THEN TakeLessRelevant(sorted, 1, above, maxArticles)
                                 ELSE above
         IN  selectDiverseArticles(relevantArticles, maxArticles)

\* the answers DetectCategory may give for the texts of a list
RECURSIVE TextCategories(_)
TextCategories(articles) ==
    IF Len(articles) = 0 THEN {<<>>}
    ELSE {Append(f, c) :
             f \in TextCategories(SubSeq(articles, 1, Len(articles) - 1)),
             c \in DetectCategoryOfText(articles[Len(articles)].text)}

\* every list FindRelevantArticles may return for an analysis
RankingsOfAnalysis(articles, analysis, maxArticles) ==
    {FindRelevantArticlesOfAnalysis(articles, analysis, c, a, maxArticles) :
        c \in determineChannelCategory(analysis), a \in TextCategories(articles)}

\* Bot.createAnalysisFromKeywords: the keywords are the main topic and the
\* one subtopic as well
createAnalysisFromKeywords(keywords) ==
    [MainTopic |-> keywords, Subtopics |-> <<keywords>>, Keywords |-> Fields(keywords)]

\* an analysis whose one keyword is the whole keyword string
keywordsAnalysisUnsplit(keywords) ==
    [MainTopic |-> keywords, Subtopics |-> <<>>, Keywords |-> <<keywords>>]

\* the analysis FindRelevantArticlesForKeywords makes up
keywordsAnalysis(keywords) ==
    [MainTopic |-> keywords, Subtopics |-> <<>>, Keywords |-> Fields(keywords)]

\* every list FindRelevantArticlesForKeywords may return
FindRelevantArticlesForKeywords(articles, keywords, maxArticles) ==
    IF Len(articles) = 0 THEN {<<>>}
    ELSE RankingsOfAnalysis(articles, keywordsAnalysis(keywords), maxArticles)

\* the keyword strings a user sends
KeywordStrings ==
    {<<>>, Ai, Hr, AiUpper, Ai \o <<32>> \o Hr, <<32>> \o Hr \o <<32, 32>> \o Ai}

\* the texts (title and summary) of the articles
ArticleTexts == {<<120>>, Ai, Hr, AiUpper \o <<32>> \o Hr}

\* lists of up to MaxKeywordRanked articles, each with its own URL
KeywordRankedLists ==
    UNION {{[i \in 1..m |-> [source |-> src[i], url |-> <<0, i>>, text |-> text[i],
                             hours |-> hours[i]]] :
               src \in [1..m -> RankedSources],
               text \in [1..m -> ArticleTexts],
               hours \in [1..m -> {5, 24}]} : m \in 0..MaxKeywordRanked}

InitKeywords ==
    /\ BotAtRest
    /\ news \in {[pc |-> "drawn", articles |-> a, keywords |-> k, maxArticles |-> n,
                  byKeywords |-> {}, byAnalysis |-> {}] :
                    a \in KeywordRankedLists, k \in KeywordStrings, n \in 1..MaxLimit}

\* the same list is ranked by FindRelevantArticlesForKeywords and by
\* FindRelevantArticles with an analysis that holds the keywords only
RankByKeywords ==
    /\ news.pc = "drawn"
    /\ news' = [news EXCEPT
                   !.pc = "ranked",
                   !.byKeywords = FindRelevantArticlesForKeywords(
                                      news.articles, news.keywords, news.maxArticles),
                   !.byAnalysis = RankingsOfAnalysis(
                                      news.articles,
                                      [MainTopic |-> news.keywords, Subtopics |-> <<>>,
                                       Keywords |-> Fields(news.keywords)],
                                      news.maxArticles)]
    /\ BotUnchanged

SpecKeywords == InitKeywords /\ [][RankByKeywords]_vars

(***************************************************************************)
(* The ledger on its own: Database.GetUser and Database.UseGeneration      *)
(* called for a user the users file does not hold, no credit in between.   *)
(***************************************************************************)
\* the user the ledger has never seen: the first
NewComer == CHOOSE u \in UserIds : \A v \in UserIds : u <= v

InitLedger ==
    /\ tally = NoTally
    /\ payment = NoPayment
    /\ shutdown = "running"
    /\ news = NoNewsRun
    /\ check = NoCheck
    /\ build = "BotDatabase"
    /\ users = [u \in UserIds |-> NoUser]
    /\ generations = <<>>
    /\ purchases = <<>>
    /\ credits = 0
    /\ reqs = [r \in Requests |-> IdleReq]
    /\ clock = 0
    /\ userLastRequest = [u \in UserIds |-> -1]

\* db.UseGeneration(userID): ok counts the calls that returned true,
\* refused is whether this call returned (false, nil)
LedgerUse ==
    /\ \E saveOk \in BOOLEAN :
          LET res == UseGeneration(users, NewComer, saveOk)
          IN  /\ users' = res.users
              /\ tally' = [tally EXCEPT !.ok = IF res.ok THEN @ + 1 ELSE @,
                                        !.refused = ~res.ok /\ ~res.err]
    /\ UNCHANGED <<payment, shutdown, news, check, build, generations, purchases, credits, reqs,
                   clock, userLastRequest>>

\* db.GetUser(userID).AvailableGenerations, as the handlers and /balance
\* read it
LedgerGet ==
    /\ tally' = [tally EXCEPT !.read = GetUser(users, NewComer).avail]
    /\ UNCHANGED <<payment, shutdown, news, check, build, users, generations, purchases,
                   credits, reqs, clock, userLastRequest>>

NextLedger == LedgerUse \/ LedgerGet

SpecLedger == InitLedger /\ [][NextLedger]_vars

(***************************************************************************)
(* The news aggregator: the two scorers, calculateRelevance (points out of *)
(* 100, counted here in hundredths of a point) and                         *)
(* CalculatePreciseRelevance (out of 1.0, counted in hundredths).          *)
(***************************************************************************)
\* keywords handed to a scorer
MaxKeywords == 7

\* "эксперт", "данные", "новый"
Expert == <<1101, 1082, 1089, 1087, 1077, 1088, 1090>>
Data == <<1076, 1072, 1085, 1085, 1099, 1077>>
New == <<1085, 1086, 1074, 1099, 1081>>

\* "аналитик", "исследование", "впервые"
Analyst == <<1072, 1085, 1072, 1083, 1080, 1090, 1080, 1082>>
Study == <<1080, 1089, 1089, 1083, 1077, 1076, 1086, 1074, 1072, 1085, 1080, 1077>>
FirstTime == <<1074, 1087, 1077, 1088, 1074, 1099, 1077>>

\* calculateArticleQuality: 3 for a title of 21 to 119 bytes, 5 for a
\* summary of 201 to 999 bytes or 3 for a longer one, 1 for each pair of
\* indicator words, at most 10
calculateArticleQuality(article) ==
    LET text == ToLower(article.text)
        title == IF article.titleLen > 20 /\ article.titleLen < 120 THEN 300 ELSE 0
        summary == IF article.summaryLen > 200 /\ article.summaryLen < 1000 THEN 500
                   ELSE IF article.summaryLen >= 1000 THEN 300
                   ELSE 0
        expert == IF Contains(text, Expert) \/ Contains(text, Analyst) THEN 100 ELSE 0
        data == IF Contains(text, Data) \/ Contains(text, Study) THEN 100 ELSE 0
        new == IF Contains(text, New) \/ Contains(text, FirstTime) THEN 100 ELSE 0
    IN  Min({1000, title + summary + expert + data + new})

\* calculateRelevance, part 1: the share of the keywords found in the
\* text, out of 60
keywordScore(article, keywords) ==
    LET matches == Cardinality({i \in 1..Len(keywords) :
                                   Contains(ToLower(article.text), keywords[i])})
    IN  IF Len(keywords) > 0 THEN (matches * 6000) \div Len(keywords) ELSE 0

\* calculateRelevance, part 2: the hours since the article was published;
\* an article without a date gets nothing
freshnessScore(article) ==
    IF article.hours = -1 THEN 0
    ELSE IF article.hours < 6 THEN 3000
    ELSE IF article.hours < 12 THEN 2500
    ELSE IF article.hours < 24 THEN 2000
    ELSE IF article.hours < 48 THEN 1500
    ELSE IF article.hours < 72 THEN 1000
    ELSE 0

\* calculateRelevance
calculateRelevance(article, keywords) ==
    keywordScore(article, keywords) + freshnessScore(article)
        + calculateArticleQuality(article)

\* the keyword lists: up to MaxKeywords words, each "ai" or "hr"
RECURSIVE KeywordLists(_)
KeywordLists(n) ==
    IF n = 0 THEN {<<>>}
    ELSE KeywordLists(n - 1) \cup
         {Append(k, w) : k \in {l \in KeywordLists(n - 1) : Len(l) = n - 1},
                         w \in {Ai, Hr}}

\* the articles scored: what the text says, the sizes of title and summary
\* in bytes, the age in hours (-1: no date), the source
ScoredArticles ==
    [text : {<<120>>, Ai, AiUpper \o <<32>> \o Hr,
             Ai \o <<32>> \o Expert \o <<32>> \o Data \o <<32>> \o FirstTime},
     titleLen : {20, 21},
     summaryLen : {200, 201, 1000},
     hours : {-1, 5, 6, 23, 47, 71, 72},
     source : RankedSources]

InitScore ==
    /\ BotAtRest
    /\ news \in {[pc |-> "drawn", article |-> a, keywords |-> k,
                  total |-> 0, relevance |-> 0, channelCategory |-> General] :
                    a \in ScoredArticles, k \in KeywordLists(MaxKeywords)}

\* the analysis a scorer is handed: the keywords, their text as main topic
analysisOfKeywords(keywords) ==
    [MainTopic |-> Join(keywords), Subtopics |-> <<>>, Keywords |-> keywords]

\* both scorers on the same article and keywords
Score ==
    /\ news.pc = "drawn"
    /\ \E c \in determineChannelCategory(analysisOfKeywords(news.keywords)),
          a \in DetectCategoryOfText(news.article.text) :
          news' = [news EXCEPT
                      !.pc = "scored",
                      !.channelCategory = c,
                      !.total = calculateRelevance(news.article, news.keywords),
                      !.relevance = CalculatePreciseRelevanceOfAnalysis(
                                        news.article, analysisOfKeywords(news.keywords),
                                        a, c)]
    /\ BotUnchanged

SpecScore == InitScore /\ [][Score]_vars

(***************************************************************************)
(* Payments (bot over Database): a payment has been created, its pending   *)
(* purchase is stored and checkPaymentStatus runs in its goroutine; the    *)
(* user presses "check" (handleCheckPayment, one goroutine a press).       *)
(***************************************************************************)
\* presses of the "check" button
MaxChecks == 2

\* checkPaymentStatus: for i := 0; i < 10; i++
PollAttempts == 10

Checks == 1..MaxChecks

\* handlePurchase has run: AddPendingPurchase, go checkPaymentStatus
InitPayment ==
    /\ tally = NoTally
    /\ shutdown = "running"
    /\ news = NoNewsRun
    /\ check = NoCheck
    /\ build = "BotDatabase"
    /\ users \in InitUsers
    /\ generations = <<>>
    /\ purchases = <<>>
    /\ credits = 0
    /\ reqs = [r \in Requests |-> IdleReq]
    /\ clock = 0
    /\ userLastRequest = [u \in UserIds |-> -1]
    /\ payment \in {[status |-> "pending", user |-> u, package |-> p, pending |-> TRUE,
                     poller |-> "poll", i |-> 0, added |-> 0,
                     checks |-> [c \in Checks |-> "idle"]] :
                        u \in UserIds, p \in PurchasedPackages}

PaymentUnchanged ==
    UNCHANGED <<tally, shutdown, news, check, build, generations, credits, reqs, clock,
                userLastRequest>>

\* the provider: the user pays, or the payment is cancelled
Pay ==
    /\ payment.status = "pending"
    /\ \E s \in {"succeeded", "canceled"} : payment' = [payment EXCEPT !.status = s]
    /\ UNCHANGED <<users, purchases>>
    /\ PaymentUnchanged

\* Database.UpdatePurchaseStatus, under db.mu: the pending purchase and the
\* history after the call; without a pending purchase nothing changes
UpdatePurchaseStatus(pay, history, status) ==
    IF ~pay.pending THEN [payment |-> pay, purchases |-> history]
    ELSE IF status = "succeeded"
    THEN [payment |-> [pay EXCEPT !.pending = FALSE],
          purchases |-> Append(history, [user |-> pay.user, package |-> pay.package])]
    ELSE [payment |-> pay, purchases |-> history]

\* handleCheckPayment up to its AddPurchase: CheckPayment, and for a
\* payment that succeeded UpdatePurchaseStatus(paymentID, "succeeded")
CheckPaymentPressed(c) ==
    /\ payment.checks[c] = "idle"
    /\ \E checkErr \in BOOLEAN :
          LET up == UpdatePurchaseStatus(payment, purchases, payment.status)
          IN  IF checkErr \/ payment.status = "pending"
              THEN /\ payment' = [payment EXCEPT !.checks[c] = "done"]
                   /\ purchases' = purchases
              ELSE /\ payment' = [up.payment EXCEPT
                                     !.checks[c] = IF payment.status = "succeeded"
                                                   THEN "add" ELSE "done"]
                   /\ purchases' = up.purchases
    /\ UNCHANGED users
    /\ PaymentUnchanged

\* handleCheckPayment: db.AddPurchase(userID, packageCode, price) and the
\* messages
CheckPaymentAdd(c) ==
    /\ payment.checks[c] = "add"
    /\ users' = AddPurchase(users, payment.user, payment.package)
    /\ purchases' = Append(purchases, [user |-> payment.user, package |-> payment.package])
    /\ payment' = [payment EXCEPT !.checks[c] = "done", !.added = @ + 1]
    /\ PaymentUnchanged

\* checkPaymentStatus: one turn of its loop up to AddPurchase; after
\* PollAttempts turns the user is told to check by hand
Poll ==
    /\ payment.poller = "poll"
    /\ \E checkErr \in BOOLEAN :
          IF payment.i >= PollAttempts
          THEN /\ payment' = [payment EXCEPT !.poller = "done"]
               /\ purchases' = purchases
          ELSE IF checkErr \/ payment.status = "pending"
          THEN /\ payment' = [payment EXCEPT !.i = @ + 1]
               /\ purchases' = purchases
          ELSE IF payment.status = "succeeded"
          THEN /\ payment' = [payment EXCEPT !.poller = "add"]
               /\ purchases' = purchases
          ELSE LET up == UpdatePurchaseStatus(payment, purchases, "canceled")
               IN  /\ payment' = [up.payment EXCEPT !.poller = "done"]
                   /\ purchases' = up.purchases
    /\ UNCHANGED users
    /\ PaymentUnchanged

\* checkPaymentStatus: db.AddPurchase and, if it returned no error,
\* UpdatePurchaseStatus(paymentID, "succeeded")
PollAdd ==
    /\ payment.poller = "add"
    /\ \E saveOk \in BOOLEAN :
          LET added == [payment EXCEPT !.poller = "done", !.added = @ + 1]
              history == Append(purchases,
                                [user |-> payment.user, package |-> payment.package])
              up == UpdatePurchaseStatus(added, history, "succeeded")
          IN  /\ users' = AddPurchase(users, payment.user, payment.package)
              /\ payment' = IF saveOk THEN up.payment ELSE added
              /\ purchases' = IF saveOk THEN up.purchases ELSE history
    /\ PaymentUnchanged

NextPayment ==
    \/ Pay
    \/ \E c \in Checks : CheckPaymentPressed(c)
    \/ \E c \in Checks : CheckPaymentAdd(c)
    \/ Poll
    \/ PollAdd

SpecPayment == InitPayment /\ [][NextPayment]_vars

(***************************************************************************)
(* The rankers as a whole: the keyword ranker FindRelevantArticles(        *)
(* keywords, maxArticles) over what FetchAllArticles returned, and the     *)
(* category-aware FindRelevantArticles(ctx, articles, analysis,            *)
(* maxArticles).                                                           *)
(***************************************************************************)
\* articles handed to the keyword ranker
MaxListed == 3

\* "ии", "ИИ", "танк"
Ii == <<1080, 1080>>
IiUpper == <<1048, 1048>>
Tank == <<1090, 1072, 1085, 1082>>

\* synonyms: the entry of each word the keyword strings below can hold;
\* its other keys are words these strings do not hold
synonyms(word) ==
    IF word = Ii
    THEN <<
       \* "искусственный интеллект"
       <<1080, 1089, 1082, 1091, 1089, 1089, 1090, 1074, 1077, 1085, 1085, 1099, 1081, 32, 1080, 1085, 1090, 1077, 1083, 1083, 1077, 1082, 1090>>,
       \* "нейросеть"
       <<1085, 1077, 1081, 1088, 1086, 1089, 1077, 1090, 1100>>,
       \* "машинное обучение"
       <<1084, 1072, 1096, 1080, 1085, 1085, 1086, 1077, 32, 1086, 1073, 1091, 1095, 1077, 1085, 1080, 1077>>,
       \* "AI"
       <<65, 73>>,
       \* "artificial intelligence"
       <<97, 114, 116, 105, 102, 105, 99, 105, 97, 108, 32, 105, 110, 116, 101, 108, 108, 105, 103, 101, 110, 99, 101>>
         >>
    ELSE <<>>

\* appends the words of a list that were not seen yet
RECURSIVE AppendUnseen(_, _)
AppendUnseen(expanded, words) ==
    IF Len(words) = 0 THEN expanded
    ELSE AppendUnseen(IF \E i \in 1..Len(expanded) : expanded[i] = Head(words)
                      THEN expanded
                      ELSE Append(expanded, Head(words)),
                      Tail(words))

\* expandKeywords from the words left to go through on
RECURSIVE ExpandWords(_, _)
ExpandWords(expanded, words) ==
    IF Len(words) = 0 THEN expanded
    ELSE ExpandWords(AppendUnseen(AppendUnseen(expanded, <<Head(words)>>),
                                  synonyms(Head(words))),
                     Tail(words))

expandKeywords(keywords) ==
    ExpandWords(<<>>, Fields(ToLower(TrimSpace(keywords))))

\* the article as calculateRelevance reads it
Scorable(article) ==
    [text |-> article.title \o <<32>> \o article.summary,
     titleLen |-> ByteLen(article.title),
     summaryLen |-> ByteLen(article.summary),
     hours |-> article.hours]

\* FindRelevantArticles(keywords, maxArticles) up to its sort: the articles
\* FilterOutMilitaryTopics keeps, each with its score, those above 0
scoredArticles(allArticles, keywords) ==
    LET articles == FilterOutMilitaryTopics(allArticles, "KeywordSearchLowerCase")
        expandedKeywords == expandKeywords(keywords)
        scored == [i \in 1..Len(articles) |->
                      [article |-> articles[i],
                       score |-> calculateRelevance(Scorable(articles[i]),
                                                    expandedKeywords)]]
        Admitted(s) == s.score > 0
    IN  SelectSeq(scored, Admitted)

\* sort.Slice by descending score: every order it may leave the list in
\* (the sort is not stable)
DescendingOrders(scored) ==
    LET n == Len(scored)
    IN  {[i \in 1..n |-> scored[p[i]]] :
            p \in {q \in [1..n -> 1..n] :
                      /\ \A i, j \in 1..n : i # j => q[i] # q[j]
                      /\ \A i \in 1..(n - 1) : scored[q[i]].score >= scored[q[i + 1]].score}}

\* taking everything that was scored, whatever maxArticles is
TopArticlesUnlimited(sorted, maxArticles) == sorted

\* the last loop of FindRelevantArticles(keywords, maxArticles):
\* for i := 0; i < len(scoredArticles) && i < maxArticles; i++
TopArticles(sorted, maxArticles) ==
    SubSeq(sorted, 1, IF maxArticles < 0 THEN 0
                      ELSE IF maxArticles > Len(sorted) THEN Len(sorted)
                      ELSE maxArticles)

\* what an article handed to the keyword ranker may be: nothing to score,
\* the keyword in capitals, a military topic, or fresh news on something else
ListedKinds ==
    {[title |-> <<120>>, summary |-> <<>>, hours |-> -1],
     [title |-> IiUpper, summary |-> <<>>, hours |-> 72],
     [title |-> Tank \o <<32>> \o Ii, summary |-> <<>>, hours |-> 5],
     [title |-> Hr, summary |-> <<>>, hours |-> 5]}

\* the lists FetchAllArticles may return: each article from some kind, all
\* from one source, each with its own URL
ListedArticles ==
    UNION {{[i \in 1..m |-> [source |-> 1, url |-> <<0, i>>,
                             title |-> kind[i].title, summary |-> kind[i].summary,
                             hours |-> kind[i].hours]] :
               kind \in [1..m -> ListedKinds]} : m \in 0..MaxListed}

\* the keyword strings: "", "ии", " ИИ  hr "
KeywordTexts == {<<>>, Ii, <<32>> \o IiUpper \o <<32, 32>> \o Hr \o <<32>>}

\* the limits the rankers are called with
Limits == 0..MaxLimit

InitRankers ==
    /\ BotAtRest
    /\ news \in {[pc |-> "drawn", variant |-> "keywords", articles |-> a, keywords |-> k,
                  score |-> <<>>, maxArticles |-> n, candidates |-> <<>>,
                  result |-> <<>>] :
                    a \in ListedArticles, k \in KeywordTexts, n \in Limits}
                \cup
                {[pc |-> "drawn", variant |-> "category", articles |-> a, keywords |-> <<>>,
                  score |-> s, maxArticles |-> n, candidates |-> <<>>,
                  result |-> <<>>] :
                    a \in RankedLists, s \in ChannelScores, n \in Limits}

\* FindRelevantArticles(keywords, maxArticles): candidates are the articles
\* left by the filter, result what is returned, each with its score
RankByKeywordScore ==
    /\ news.pc = "drawn"
    /\ news.variant = "keywords"
    /\ \E sorted \in DescendingOrders(scoredArticles(news.articles, news.keywords)) :
          LET top == TopArticles(sorted, news.maxArticles)
          IN  news' = [news EXCEPT
                          !.pc = "ranked",
                          !.candidates = FilterOutMilitaryTopics(
                                             news.articles, "KeywordSearchLowerCase"),
                          !.result = [i \in 1..Len(top) |->
                                         [source |-> top[i].article.source,
                                          url |-> top[i].article.url,
                                          relevance |-> top[i].score]]]
    /\ BotUnchanged

\* FindRelevantArticles(ctx, articles, analysis, maxArticles)
RankByCategory ==
    /\ news.pc = "drawn"
    /\ news.variant = "category"
    /\ \E c \in BestCategories(news.score), a \in ArticleCategories(news.articles) :
          news' = [news EXCEPT
                      !.pc = "ranked",
                      !.candidates = news.articles,
                      !.result = FindRelevantArticles(news.articles, c, a,
                                                      news.maxArticles)]
    /\ BotUnchanged

NextRankers == RankByKeywordScore \/ RankByCategory

SpecRankers == InitRankers /\ [][NextRankers]_vars

(***************************************************************************)
(* Properties.                                                             *)
(***************************************************************************)
Done(r) == reqs[r].pc = "done"

\* the request went out to the user as a post
Succeeded(r) == Done(r) /\ reqs[r].outcome = "Success" /\ reqs[r].delivered

\* C1: a request that ends has taken exactly one generation from its user
\* when it ended in Success with the post delivered, and none when it ended
\* in any failure.
C1_BalanceFollowsOutcome ==
    \A r \in Requests :
        Done(r) => reqs[r].charged = IF Succeeded(r) THEN 1 ELSE 0

\* C2: the available generations of every user are never negative, whatever
\* the interleaving of debits, credits, purchases and requests.
C2_BalanceNeverNegative ==
    \A u \in UserIds : users[u].avail >= 0 /\ GetUser(users, u).avail >= 0

\* C2, its case: a user is down to zero after a debit, and a request of that
\* user was refused the debit and took nothing.
C2_DebitRefusedAtZero ==
    \E r \in Requests :
        /\ Done(r)
        /\ reqs[r].outcome = "LedgerError"
        /\ reqs[r].charged = 0
        /\ users[reqs[r].user].avail = 0
        /\ users[reqs[r].user].total >= 1

\* C3: within a request the debit is invoked at most once, and only after
\* the generator returned a text that passed validation.
C3_DebitOnlyAfterValidation ==
    \A r \in Requests :
        /\ reqs[r].debits <= 1
        /\ reqs[r].debits >= 1 => reqs[r].valid

\* C4: a request all of whose generator calls were answered by a refusal
\* ends only after one call for each candidate of the ranked list, with no
\* debit call, as a failure.
C4_AllRefusedTriesEveryCandidate ==
    \A r \in Requests :
        ( /\ Done(r)
          /\ reqs[r].calls # <<>>
          /\ \A i \in 1..Len(reqs[r].calls) : reqs[r].calls[i].answer = "refusal" )
        => /\ Len(reqs[r].calls) = reqs[r].ncand
           /\ {reqs[r].calls[i].article : i \in 1..Len(reqs[r].calls)} = 1..reqs[r].ncand
           /\ reqs[r].debits = 0
           /\ reqs[r].outcome \in {"Refusal", "GenerationFailed"}
           /\ ~reqs[r].delivered

\* the requests that took the last generation: past the debit, or ended in
\* Success
Winners ==
    {r \in Requests : reqs[r].pc \in {"history", "send"} \/ reqs[r].outcome = "Success"}

\* C5: of the concurrent requests of a user whose balance is exactly 1, at
\* most one gets past the debit; the balance is never below 0 and is 0 once
\* a request got past the debit; every other request ends in a failure with
\* no post delivered.
C5_OneWinnerOnLastGeneration ==
    /\ Cardinality(Winners) <= 1
    /\ users[Racer].avail \in {0, 1}
    /\ Winners # {} => users[Racer].avail = 0
    /\ \A r \in Requests \ Winners :
           Done(r) => reqs[r].outcome # "Success" /\ ~reqs[r].delivered

\* C5, its case: two requests passed the balance check and validation; one
\* was delivered, the other was refused the debit; the balance is 0.
C5_BothReachedTheDebit ==
    \E r1, r2 \in Requests :
        /\ r1 # r2
        /\ Succeeded(r1)
        /\ Done(r2) /\ reqs[r2].outcome = "LedgerError"
        /\ ~reqs[r2].startEmpty /\ reqs[r2].valid /\ reqs[r2].charged = 0
        /\ users[Racer].avail = 0

\* C6: a request of a user whose balance is <= 0 at its start fetches
\* nothing, never calls the generator, and ends as quota-exhausted.
C6_QuotaCheckedBeforePipeline ==
    \A r \in Requests :
        reqs[r].startEmpty =>
            /\ ~reqs[r].fetched
            /\ reqs[r].calls = <<>>
            /\ Done(r) => reqs[r].outcome = "QuotaExhausted"

\* C7: a step in which the debit after a validated generation ends the
\* request with a ledger error leaves the user's balance and total as they
\* were, and the post is not delivered.
C7_LedgerErrorLeavesUserUnchanged ==
    [][\A r \in Requests :
          ( /\ reqs[r].pc = "debit"
            /\ reqs'[r].pc = "done"
            /\ reqs'[r].outcome = "LedgerError" )
          => /\ GetUser(users', reqs[r].user) = GetUser(users, reqs[r].user)
             /\ ~reqs'[r].delivered]_vars

\* C8: a request whose generator answer was empty or white space only does
\* not pass validation and is not on its way to the debit or to delivery.
C8_BlankAnswerNeverCommitted ==
    \A r \in Requests :
        reqs[r].blank =>
            /\ ~reqs[r].valid
            /\ reqs[r].pc \notin {"debit", "history", "send"}

\* C9: isGPTRefusal and isRejectedPost are true of exactly the texts that
\* hold a phrase of their list in any case; such a text is rejected by the
\* checks of the handler.
C9_RefusalIffPhraseInAnyCase ==
    check.pc = "checked" =>
        /\ check.isGPTRefusal <=> MentionsAny(check.post, refusalPhrases)
        /\ check.isRejectedPost <=> MentionsAny(check.post, rejectionPhrases)
        /\ check.isGPTRefusal => check.verdict = "Refusal"
        /\ check.isRejectedPost => ~check.accepted

\* C9, its case: a text that spells a phrase with capital letters was
\* checked, found a refusal and rejected.
C9_CapitalisedRefusalChecked ==
    /\ check.pc = "checked"
    /\ check.post # ToLower(check.post)
    /\ ~Contains(check.post, refusalPhrases[2])
    /\ ContainsAnyCase(check.post, refusalPhrases[2])
    /\ check.isGPTRefusal
    /\ check.isRejectedPost
    /\ check.verdict = "Refusal"
    /\ ~check.accepted

\* C10: a step in which the generator returns an error for a candidate that
\* is not the last of the ranked list does not end the run: the request goes
\* on to the next candidate.
C10_GeneratorErrorMovesToNextCandidate ==
    [][\A r \in Requests :
          ( /\ reqs[r].pc \in {"generate", "try"}
            /\ reqs[r].cur < reqs[r].ncand
            /\ Len(reqs'[r].calls) = Len(reqs[r].calls) + 1
            /\ reqs'[r].calls[Len(reqs'[r].calls)].answer = "error" )
          => /\ reqs'[r].pc = reqs[r].pc
             /\ reqs'[r].cur = reqs[r].cur + 1]_vars

\* the aggregator has returned
Returned == news.pc = "returned"

\* the articles of the sources whose fetch succeeded
FetchedArticles ==
    UNION {{news.feeds[s].articles[n] : n \in 1..Len(news.feeds[s].articles)} :
              s \in {t \in Sources : news.feeds[t].ok}}

\* the articles of the returned list
Returns == {news.result[i] : i \in 1..Len(news.result)}

\* each article of the returned list is there once
EachOnce == Cardinality(Returns) = Len(news.result)

\* whether a title of the feeds holds a keyword of the fetch filter, in any case
TitleBlocklisted ==
    [t \in FeedTitles |->
        Blocklisted([title |-> t, summary |-> <<>>], militaryKeywords)]

\* C11: with n registered sources of which m fail, FetchAllArticles returns
\* a nil error and each article of the n-m succeeding sources exactly once,
\* less, in the version that filters, the articles with a blocklisted text;
\* with m = n the list is empty and the error is still nil.
C11_ReturnsArticlesOfSucceedingSources ==
    Returned =>
        /\ ~news.err
        /\ EachOnce
        /\ Returns = {a \in FetchedArticles :
                         ~(news.aggregator = "FetchFilter" /\ TitleBlocklisted[a.title])}
        /\ (\A s \in Sources : ~news.feeds[s].ok) => news.result = <<>>

\* C11 (as stated): the returned list holds exactly the articles of the
\* succeeding sources, each once, and the error is nil.
C11_ReturnsEveryFetchedArticle ==
    Returned => /\ ~news.err
                /\ EachOnce
                /\ Returns = FetchedArticles

\* C11 (case): a source failed, another gave articles, and the list came back
C11_PartialFailureReturned ==
    /\ Returned
    /\ \E s \in Sources : ~news.feeds[s].ok
    /\ \E s \in Sources : news.feeds[s].ok /\ Len(news.feeds[s].articles) > 0
    /\ news.result # <<>>

\* C20: the concurrent FetchAllArticles returns only after every goroutine
\* has finished, its list holds every article of every succeeding source
\* whatever the interleaving, and a failing source keeps none of the others
\* away.
C20_ConcurrentFetchLosesNothing ==
    (news.aggregator = "Goroutines" /\ Returned) =>
        /\ \A s \in Sources : news.at[s] = "done"
        /\ \A s \in Sources :
              news.feeds[s].ok =>
                  \A n \in 1..Len(news.feeds[s].articles) :
                      Cardinality({i \in 1..Len(news.result) :
                                      news.result[i] = news.feeds[s].articles[n]}) = 1
        /\ Len(news.result) = Cardinality(FetchedArticles)

\* C20 (case): two goroutines appended their articles and the call returned
C20_TwoAppended ==
    /\ news.aggregator = "Goroutines"
    /\ Returned
    /\ Cardinality({s \in Sources : news.feeds[s].ok
                                    /\ Len(news.feeds[s].articles) > 0}) >= 2

\* C12: an article whose title and summary hold a keyword of the filter's
\* blocklist, in whatever case the article or the blocklist writes it, is
\* not kept by the filter, so no later stage sees it.
C12_BlocklistedArticleNeverKept ==
    (news.pc = "filtered" /\ Blocklisted(news.article, KeywordsOf(news.filter)))
        => ~news.kept

\* C13: for the same article list, channel analysis and limit, the ranking
\* returns the same ordered list every time it is called, ties included.
C13_RankingDeterministic ==
    news.pc = "ranked" => news.first = news.second

\* the articles the first call scored above the relevance threshold of 0.6
Qualifying ==
    {i \in 1..Len(news.articles) :
        CalculatePreciseRelevance(news.articles[i], news.articleCategory[i],
                                  news.channelCategory) > 60}

\* C14: when the limit is k and at least k distinct sources have an article
\* above the relevance threshold, the ranking returns articles of k distinct
\* sources.
C14_OnePerSourceUpToLimit ==
    (/\ news.pc = "ranked"
     /\ Cardinality({news.articles[i].source : i \in Qualifying}) >= news.maxArticles)
        => Cardinality(SourcesOf(news.first)) = news.maxArticles

\* C15: the sorted list is in non-increasing order of score, and articles
\* with equal scores stand in the order they had in the input.
C15_SortedAndStable ==
    news.pc = "sorted" =>
        \A i, j \in 1..Len(news.sorted) :
            i < j => \/ news.sorted[i].relevance > news.sorted[j].relevance
                     \/ /\ news.sorted[i].relevance = news.sorted[j].relevance
                        /\ news.sorted[i].url[2] < news.sorted[j].url[2]

\* C16: the selection never returns two articles with the same URL, and it
\* returns as many articles as the limit allows and the distinct URLs of
\* the candidates provide.
C16_NoUrlTwice ==
    news.pc = "selected" =>
        /\ \A i, j \in 1..Len(news.result) :
              i # j => news.result[i].url # news.result[j].url
        /\ Len(news.result) = Min({news.maxArticles, Cardinality(Urls(news.articles))})

\* the request ended because there was nothing to write about
NoCandidates(r) == Done(r) /\ reqs[r].outcome \in {"NoNews", "NoRelevant"}

\* C17: a request that gets no articles from the aggregation, or no candidate
\* from the ranking, ends without a call of the generator and without a
\* post, and has taken nothing from the user's balance when it ends.
C17_NoCandidatesCostsNothing ==
    \A r \in Requests :
        NoCandidates(r) => /\ reqs[r].calls = <<>>
                           /\ reqs[r].charged = 0
                           /\ ~reqs[r].delivered

\* C17 (case): a request of the Storage bot was debited at its start, found
\* no candidates and gave the generation back
C17_DebitedThenNoCandidates ==
    \E r \in Requests :
        NoCandidates(r) /\ reqs[r].debits = 1 /\ reqs[r].refunds = 1

\* the requests of user u whose history record has been appended
Recorded(u) ==
    {r \in Requests : /\ reqs[r].user = u
                      /\ \/ reqs[r].pc = "send"
                         \/ Done(r) /\ reqs[r].outcome = "Success"}

\* the requests of user u whose debit has succeeded
Debited(u) ==
    Recorded(u) \cup {r \in Requests : reqs[r].user = u /\ reqs[r].pc = "history"}

\* the history records of user u
History(u) == {i \in 1..Len(generations) : generations[i] = u}

C19_CreditAddsExactlyN ==
    [][/\ \A u \in UserIds, n \in 1..MaxCreditCount :
             AdminAddGenerations(u, n) =>
                 /\ GetUser(users', u).avail = GetUser(users, u).avail + n
                 /\ GetUser(users', u).total = GetUser(users, u).total
       /\ \A r \in Requests :
             (build = "BotStorage" /\ reqs'[r].refunds = reqs[r].refunds + 1) =>
                 /\ GetUser(users', reqs[r].user).avail
                        = GetUser(users, reqs[r].user).avail + 1
                 /\ GetUser(users', reqs[r].user).total
                        = GetUser(users, reqs[r].user).total]_vars

\* C19 (case): a user the ledger did not hold has been credited
C19_UnknownUserCredited ==
    /\ credits > 0
    /\ purchases = <<>>
    /\ \A r \in Requests : reqs[r].pc = "idle"
    /\ \E u \in UserIds : users[u].exists /\ users[u].avail > FreeGenerations

(***************************************************************************)
(* What the user is told when a request fails.                             *)
(***************************************************************************)
\* the failure texts with the no-news text used for a failed generation too
FailureTextMerged(b, outcome) ==
    CASE outcome \in {"NoNews", "NoRelevant", "Refusal", "EmptyPost",
                      "GeneratorError", "GenerationFailed"} -> "no news found"
      [] OTHER -> "other"

\* the text a handler sends or edits in before it returns, by the exit taken:
\* "Закончились генерации!", "Причина: Ошибка при поиске новостей",
\* "Причина: Не найдено подходящих новостей по теме", "Причина: Не удалось
\* получить содержимое страницы", "Причина: Ошибка AI при генерации поста",
\* "Причина: ИИ отказался обсуждать данную тему", "Причина: AI вернул пустой
\* пост", "Причина: Ошибка при списании генерации"; in the Storage bot
\* "Закончились генерации!", "Пожалуйста, подождите N секунд", "Ошибка
\* системы. Попробуйте позже.", nothing when the progress message could not
\* be sent, "Не удалось получить новости", "Нет доступных новостей", "Не
\* найдено релевантных новостей", "Не удалось сгенерировать пост"
FailureText(b, outcome) ==
    IF b = "BotStorage"
    THEN CASE outcome = "QuotaExhausted" -> "out of generations"
           [] outcome = "RateLimited" -> "wait N seconds"
           [] outcome = "SystemError" -> "system error, try later"
           [] outcome = "NoReport" -> "none"
           [] outcome = "NewsError" -> "could not get the news"
           [] outcome = "NoNews" -> "no news available"
           [] outcome = "NoRelevant" -> "no relevant news found"
           [] outcome = "GenerationFailed" -> "could not generate a post"
           [] OTHER -> "none"
    ELSE CASE outcome = "QuotaExhausted" -> "out of generations"
           [] outcome = "NewsError" -> "reason: error while searching the news"
           [] outcome = "NoNews" -> "reason: no fitting news found"
           [] outcome = "FetchError" -> "reason: could not get the page"
           [] outcome = "GeneratorError" -> "reason: AI error while generating"
           [] outcome = "Refusal" -> "reason: AI refused the topic"
           [] outcome = "EmptyPost" -> "reason: AI returned an empty post"
           [] outcome = "LedgerError" -> "reason: error while debiting"
           [] OTHER -> "none"

\* the request ended without a post
Failed(r) == Done(r) /\ reqs[r].outcome # "Success"

\* why a request failed: nothing to write about, no usable post from the
\* generator, no generation left (found at the start or by the debit), or
\* something else
Cause(r) ==
    LET q == reqs[r]
    IN  CASE q.outcome \in {"NoNews", "NoRelevant"} -> "no candidates"
          [] q.outcome \in {"Refusal", "EmptyPost", "GeneratorError",
                            "GenerationFailed"} -> "generation refused"
          [] \/ q.outcome = "QuotaExhausted"
             \/ q.outcome \in {"LedgerError", "SystemError"} /\ q.charged = 0
                -> "quota exhausted"
          [] OTHER -> "other"

MainCauses == {"no candidates", "generation refused", "quota exhausted"}

C22_NoDebitAfterCancel ==
    [][shutdown = "cancelled" =>
          \A r \in Requests :
              /\ reqs'[r].debits = reqs[r].debits
              /\ (reqs[r].pc \notin {"idle", "done"} /\ reqs'[r].pc = "done")
                     => reqs'[r].outcome # "Success"]_vars

C24_AnalysisErrorNotFatal ==
    \A r \in Requests : reqs[r].outcome # "AnalysisError"

Arrives(r, u) == reqs[r].pc = "idle" /\ reqs'[r].pc # "idle" /\ reqs'[r].user = u

\* the step leaves no trace of a debit, a news fetch or a generator call, and
\* the anti-spam window is as it was
NothingStarted(r) ==
    /\ reqs'[r].pc = "done"
    /\ reqs'[r].debits = 0
    /\ ~reqs'[r].fetched
    /\ reqs'[r].calls = <<>>
    /\ users' = users
    /\ userLastRequest' = userLastRequest

\* C26: a request that arrives less than 30 seconds after the chat's last
\* accepted request is rejected before any debit, news fetch or generator
\* call and leaves the window as it was; a request that arrives 30 seconds
\* or more after it, or is the first of its chat, is not rejected by the
\* anti-spam check, and an accepted request starts the window.
C26_OneRequestPerWindow ==
    [][\A r \in Requests, u \in UserIds :
          Arrives(r, u) =>
              LET last == userLastRequest[u]
              IN  /\ (last # -1 /\ clock - last < SpamWindow)
                        => /\ reqs'[r].outcome \in {"RateLimited", "QuotaExhausted"}
                           /\ NothingStarted(r)
                  /\ (last = -1 \/ clock - last >= SpamWindow)
                        => reqs'[r].outcome # "RateLimited"
                  /\ reqs'[r].outcome \notin {"RateLimited", "QuotaExhausted"}
                        => userLastRequest'[u] = clock]_vars

C26_RejectedThenWindowOver ==
    \E r1, r2 \in Requests :
        /\ reqs[r1].pc = "done" /\ reqs[r1].outcome = "RateLimited"
        /\ reqs[r2].pc = "done" /\ reqs[r2].outcome = "Success"
        /\ reqs[r1].user = reqs[r2].user
        /\ clock - userLastRequest[reqs[r1].user] >= SpamWindow

\* C27: each signal of a score has its own cap and the signals add up: in
\* calculateRelevance the keyword part is at most 60, the freshness at most
\* 30, the quality at most 10 and the total within 0..100; in
\* CalculatePreciseRelevance the keyword, topic, freshness and source
\* signals each stay below the maximum relevance and the total is at most
\* 1.0.
C27_SignalsCapped ==
    news.pc = "scored" =>
        LET analysis == analysisOfKeywords(news.keywords)
        IN  /\ keywordScore(news.article, news.keywords) \in 0..6000
            /\ freshnessScore(news.article) \in 0..3000
            /\ calculateArticleQuality(news.article) \in 0..1000
            /\ news.total \in 0..10000
            /\ news.total = keywordScore(news.article, news.keywords)
                              + freshnessScore(news.article)
                              + calculateArticleQuality(news.article)
            /\ news.relevance \in 0..100
            /\ KeywordSignal(news.article, analysis) <= 100
            /\ TopicSignal(news.article, analysis) <= 100
            /\ FreshnessSignal(news.article) <= 100
            /\ SourceSignal(news.article, news.channelCategory) <= 100

\* the requests of user u whose call of UseGeneration returned true
DebitedOk(u) ==
    {r \in Requests : /\ reqs[r].user = u
                      /\ reqs[r].debits > 0
                      /\ ~(Done(r) /\ reqs[r].outcome \in {"LedgerError", "SystemError"})}

\* C28: TotalGenerations of a user never decreases and always equals the
\* number of debits of that user that returned ok = true: a debit that
\* succeeds adds 1 to it and takes 1 from AvailableGenerations, a debit that
\* does not succeed, a credit and a refund leave it alone.
C28_TotalCountsSuccessfulDebits ==
    /\ [](\A u \in UserIds : GetUser(users, u).total = Cardinality(DebitedOk(u)))
    /\ [][\A u \in UserIds : GetUser(users', u).total >= GetUser(users, u).total]_vars

\* C29: the candidates of a request go to the generator one at a time in
\* the order of the ranking: call i is for candidate i, the first call for
\* the top of the list, and once a post is accepted no further call is made.
C29_CandidatesTriedInRankOrder ==
    \A r \in Requests :
        /\ \A i \in 1..Len(reqs[r].calls) : reqs[r].calls[i].article = i
        /\ reqs[r].valid => reqs[r].pc \notin {"try", "generate"}

\* C30: in the Storage bot a request that was debited at its start and ends
\* without a post is given exactly one generation back, so that the balance
\* is what it was before the request; a request that ends with a post is
\* given nothing back.
C30_FailedRequestRefundedOnce ==
    build = "BotStorage" =>
        \A r \in Requests :
            (Done(r) /\ reqs[r].debits = 1 /\ reqs[r].outcome # "SystemError") =>
                IF reqs[r].outcome = "Success"
                THEN reqs[r].refunds = 0
                ELSE reqs[r].refunds = 1 /\ reqs[r].charged = 0

\* C31: a payment that succeeded is credited once, however often its
\* status is checked by the user and by the poller: AddPurchase is called
\* at most once for it and the purchase history holds it once.
C31_PaymentCreditedOnce ==
    payment.status # "none" =>
        /\ payment.added <= 1
        /\ Len(purchases) <= 1


\* a step taken for user a: a step of a request of a, a credit to a (admin
\* command) or a purchase of a
StepFor(a) ==
    \/ \E r \in Requests : reqs'[r] # reqs[r] /\ reqs'[r].user = a
    \/ \E n \in 1..MaxCreditCount : AdminAddGenerations(a, n)
    \/ \E p \in PurchasedPackages : Purchase(a, p)

\* C32: a debit, credit, purchase or generation request of user A leaves
\* the available and the total generations (and the existence) of every
\* other user B unchanged, in every interleaving of the requests.
C32_OtherUsersUntouched ==
    [][\A a \in UserIds : StepFor(a) =>
          \A b \in UserIds \ {a} : users'[b] = users[b]]_vars

\* two requests of two different users have both been debited, and each
\* user has been charged once
C32_TwoUsersDebited ==
    \E r, q \in Requests :
        /\ reqs[r].user # 0 /\ reqs[q].user # 0
        /\ reqs[r].user # reqs[q].user
        /\ reqs[r].charged = 1 /\ reqs[q].charged = 1
        /\ users[reqs[r].user].total = 1
        /\ users[reqs[q].user].total = 1


\* the score a returned article must exceed: 0 for the keyword scorer
\* (points out of 100), 0.4 for the category-aware scorer (hundredths)
Threshold(variant) == IF variant = "keywords" THEN 0 ELSE 40

\* C33: whatever the list, the keywords or profile and the limit, a ranker
\* returns at most limit articles, each of them an article of the
\* (filtered) input list with a score above the threshold of the ranker,
\* and nothing for an empty input.
C33_RankerResultWithinBounds ==
    news.pc = "ranked" =>
        /\ Len(news.result) <= news.maxArticles
        /\ \A i \in 1..Len(news.result) :
              /\ \E j \in 1..Len(news.candidates) :
                    /\ news.candidates[j].url = news.result[i].url
                    /\ news.candidates[j].source = news.result[i].source
              /\ news.result[i].relevance > Threshold(news.variant)
        /\ Len(news.articles) = 0 => Len(news.result) = 0

\* the keyword ranker was handed more scoring articles than the limit, one
\* of them dropped by the filter, and returned as many as the limit allows
C33_FilteredAndCut ==
    /\ news.pc = "ranked"
    /\ news.variant = "keywords"
    /\ news.maxArticles > 0
    /\ Len(news.candidates) < Len(news.articles)
    /\ Len(news.candidates) > news.maxArticles
    /\ Len(news.result) = news.maxArticles

====
